---- MODULE Spec2Model ----
(***************************************************************************)
(* Model of the wikiagent guardrail supervisor, the agent coordinator,     *)
(* the judge retry loop and the evaluation runner of ai-bootcamp-krlz.     *)
(*                                                                         *)
(* The four subsystems share one variable tuple; each has its own          *)
(* specification (SpecGuard, SpecJudge, SpecQuery, SpecEval) in which the  *)
(* variables of the other subsystems stay at their initial values.         *)
(***************************************************************************)
EXTENDS Integers, Sequences, FiniteSets, TLC

(* ------------------------------ bounds --------------------------------- *)
\* longest guardrails list passed to run_with_guardrails
MaxGuardrails == 2
\* largest value of the shared cost counter
CostCap == 2
\* largest max_cost of a cost_guardrail
MaxCostLimit == 1
\* number of times the agent coroutine suspends on I/O at most
MaxAgentSteps == 2

(* ------------------------ state: guardrails ---------------------------- *)
VARIABLES
  guardrails,     \* the guardrails argument: a sequence of guardrail coroutines
  agentOnCancel,  \* what the agent coroutine does with a CancelledError
  task,           \* task id -> "pending" | "result" | "error" | "trip" | "cancelled"
  started,        \* task id -> the coroutine has executed its first step
  must_cancel,    \* task id -> Task.cancel() was requested and not yet delivered
  sched,          \* task id -> "ready" (step queued) | "waiting" (timer / I/O) | "none"
  ready,          \* the event loop's FIFO of callbacks
  ntodo,          \* callbacks left in the current loop iteration
  outer1,         \* future of gather(agent_task, *guardrail_tasks)
  nfin1,          \* its count of finished children
  outer2,         \* future of gather(*guardrail_tasks, return_exceptions=True)
  nfin2,          \* its count of finished children
  sup_pc,         \* position of run_with_guardrails
  outcome,        \* how run_with_guardrails left: "none" while it has not
  cost_tracker,   \* the shared dict read by cost_guardrail
  agent_steps,    \* steps of its body the agent coroutine has executed
  agent_first,    \* history: the agent completed with a result before any trip
  exceeded        \* history: the counter was above a max_cost while the agent ran

guardVars == <<guardrails, agentOnCancel, task, started, must_cancel, sched,
               ready, ntodo, outer1, nfin1, outer2, nfin2, sup_pc, outcome,
               cost_tracker, agent_steps, agent_first, exceeded>>

(* -------------------------- state: judge ------------------------------- *)
VARIABLES
  max_retries,    \* the max_retries argument
  attempt,        \* loop variable of `for attempt in range(max_retries)`
  jpc,            \* position of _run_judge_with_retry
  jhist,          \* history: the outcome of every judge_agent.run so far
  jwaits,         \* history: the wait_time of every asyncio.sleep so far
  jret,           \* the (evaluation, usage) pair returned
  ea_pc,          \* position of evaluate_answer
  ea_ret          \* the pair returned by evaluate_answer

judgeVars == <<max_retries, attempt, jpc, jhist, jwaits, jret, ea_pc, ea_ret>>

(* -------------------------- state: query ------------------------------- *)
VARIABLES
  _tool_calls,    \* the module-level list of tool calls
  qvariant,       \* query -> "plain" (query_wikipedia) | "stream" (query_wikipedia_stream)
  qpc,            \* query -> position of the call
  qresp,          \* query -> the WikipediaAgentResponse returned
  qissued,        \* history: query -> the tool calls made during that query
  tool_nums       \* history: query -> the tool_num of every call logged for it

queryVars == <<_tool_calls, qvariant, qpc, qresp, qissued, tool_nums>>

(* ------------------------ state: evaluation ---------------------------- *)
VARIABLES
  ground_truth,   \* the list loaded from the ground-truth file
  ei,             \* 1-based index of the item being processed
  epc,            \* position of evaluate_agent
  results,        \* the records appended so far
  report,         \* what save_evaluation_results has written
  agent_result,   \* the response of query_wikipedia for the current item
  judge_result,   \* what evaluate_answer returned for the current item
  ehist,          \* history: item -> how its agent call and its judge call ended
  inflight        \* the agent and judge invocations called and not yet returned

evalVars == <<ground_truth, ei, epc, results, report, agent_result, judge_result, ehist, inflight>>

(* ---------------------- state: error handling -------------------------- *)
VARIABLES
  exception,      \* the failure an agent run raised
  handled,        \* the responses handle_agent_error has returned for it
  caught          \* the responses the except block of query_wikipedia has returned for it

errorVars == <<exception, handled, caught>>

(* ---------------------- state: function calls -------------------------- *)
VARIABLES
  call_args,      \* the values the functions under study are called with
  returned        \* what they have returned so far, each with the function's name

callVars == <<call_args, returned>>

(* ------------------------ state: streaming ----------------------------- *)
VARIABLES
  stream,         \* the responses result.stream_responses has still to yield
  previous_text,  \* the structured-output text seen last
  deltas,         \* what structured_output_callback was called with, in order
  tool_seen,      \* what tool_call_callback was called with, in order
  sresp           \* the response query_wikipedia_stream has returned

streamVars == <<stream, previous_text, deltas, tool_seen, sresp>>

vars == <<guardVars, judgeVars, queryVars, evalVars, errorVars, callVars, streamVars>>

nonGuardVars == <<judgeVars, queryVars, evalVars, errorVars, callVars, streamVars>>
nonJudgeVars == <<guardVars, queryVars, evalVars, errorVars, callVars, streamVars>>
nonQueryVars == <<guardVars, judgeVars, evalVars, errorVars, callVars, streamVars>>
nonEvalVars == <<guardVars, judgeVars, queryVars, errorVars, callVars, streamVars>>
nonErrorVars == <<guardVars, judgeVars, queryVars, evalVars, callVars, streamVars>>
nonCallVars == <<guardVars, judgeVars, queryVars, evalVars, errorVars, streamVars>>
nonStreamVars == <<guardVars, judgeVars, queryVars, evalVars, errorVars, callVars>>

(* =========================== GUARDRAILS ================================ *)
(* ---- values of the variables of a subsystem that is not running ------- *)
\* the calls of query_wikipedia / query_wikipedia_stream made on one event
\* loop: two, which may be in flight together or run one after the other
Queries == {1, 2}

\* no response yet
\* Python's None in an optional field of a response
None == [none |-> TRUE]

\* a SearchAgentAnswer, of which the sources it names matter here
SearchAgentAnswer(sources_used) == [sources_used |-> sources_used]

NoResponse == [answer |-> None, tool_calls |-> <<>>, usage |-> None, error |-> None]

\* no failure
NoException == [type |-> <<>>, msg |-> <<>>]

\* evaluate_answer of the evaluation harness has returned nothing yet
NoJudgeResult == [evaluation |-> None, usage |-> None]

\* no pair yet
NoPair == [evaluation |-> "none", usage |-> "none"]

AGENT == 0
NGuard == Len(guardrails)
GuardIds == 1..NGuard
TaskIds == 0..NGuard

(* ---- query_guardrail's string test, on strings as sequences of chars --- *)
\* str.lower() on one character
ToLower ==
  LET UpperCase ==
        <<"A", "B", "C", "D", "E", "F", "G", "H", "I", "J", "K", "L", "M",
          "N", "O", "P", "Q", "R", "S", "T", "U", "V", "W", "X", "Y", "Z">>
      LowerCase ==
        <<"a", "b", "c", "d", "e", "f", "g", "h", "i", "j", "k", "l", "m",
          "n", "o", "p", "q", "r", "s", "t", "u", "v", "w", "x", "y", "z">>
  IN  [c \in { UpperCase[i] : i \in 1..26 } |->
         LowerCase[CHOOSE i \in 1..26 : UpperCase[i] = c]]

Lower(c) == IF c \in DOMAIN ToLower THEN ToLower[c] ELSE c

LowerStr(s) == [i \in 1..Len(s) |-> Lower(s[i])]

\* Python's `sub in s`
Contains(s, sub) ==
  \E i \in 0..(Len(s) - Len(sub)) :
     \A j \in 1..Len(sub) : s[i + j] = sub[j]

QueryTrips_KeywordAsIs(question, blocked_keywords) ==
  /\ blocked_keywords # <<>>
  /\ \E k \in 1..Len(blocked_keywords) :
        /\ blocked_keywords[k] # <<>>
        /\ Contains(LowerStr(question), blocked_keywords[k])

\* query_guardrail raises for the first keyword that is non-empty and occurs
QueryTrips(question, blocked_keywords) ==
  /\ blocked_keywords # <<>>
  /\ \E k \in 1..Len(blocked_keywords) :
        /\ blocked_keywords[k] # <<>>
        /\ Contains(LowerStr(question), LowerStr(blocked_keywords[k]))

\* cost_tracker.get("total", 0.0)
CostRead(tracker) == IF "total" \in DOMAIN tracker THEN tracker["total"] ELSE 0

CostTrips_AtLimit(max_cost, tracker) == CostRead(tracker) >= max_cost

\* cost_guardrail's test at a poll
CostTrips(max_cost, tracker) == CostRead(tracker) > max_cost

(* ---- inputs ----------------------------------------------------------- *)
Questions == { <<"H", "i">> }
KeywordLists ==
  { <<>>, << <<>> >>, << <<"h">> >>, << <<>>, <<"x">> >>, << <<"x">>, <<"I">> >> }

CostGuardrails ==
  { [kind |-> "cost", max_cost |-> m, question |-> <<>>, blocked_keywords |-> <<>>] :
      m \in 0..MaxCostLimit }
QueryGuardrails ==
  { [kind |-> "query", max_cost |-> 0, question |-> q, blocked_keywords |-> ks] :
      q \in Questions, ks \in KeywordLists }
GuardrailChoices == CostGuardrails \cup QueryGuardrails

SeqsUpTo(S, n) == UNION { [1..k -> S] : k \in 0..n }

EmptyTracker == [k \in {} |-> 0]

(* ---- event loop helpers ------------------------------------------------ *)
StepCb(t) == [type |-> "step", t |-> t]
Gather1Cb(t) == [type |-> "gather1", t |-> t]
Gather2Cb(t) == [type |-> "gather2", t |-> t]
WakeCb == [type |-> "wake", t |-> 0]

HeadIs(type) == ntodo > 0 /\ ready # <<>> /\ Head(ready).type = type


\* callbacks scheduled when task t completes, in registration order:
\* the first gather's callback, then whoever awaits the task since
DoneCallbacks(t) ==
  <<Gather1Cb(t)>>
  \o (IF t = AGENT /\ sup_pc = "await_agent" THEN <<WakeCb>> ELSE <<>>)
  \o (IF t # AGENT /\ sup_pc = "await_cleanup" THEN <<Gather2Cb(t)>> ELSE <<>>)

\* a task step that ends the coroutine with state st
FinishTask(t, st) ==
  /\ task' = [task EXCEPT ![t] = st]
  /\ sched' = [sched EXCEPT ![t] = "none"]
  /\ must_cancel' = [must_cancel EXCEPT ![t] = FALSE]
  /\ ready' = Tail(ready) \o DoneCallbacks(t)

\* a task step that suspends the coroutine on a timer or on I/O
SuspendTask(t) ==
  /\ sched' = [sched EXCEPT ![t] = "waiting"]
  /\ ready' = Tail(ready)
  /\ UNCHANGED <<task, must_cancel>>

AnyTripped == \E g \in GuardIds : task[g] = "trip"

Exceeds(tracker) ==
  \E g \in GuardIds : guardrails[g].kind = "cost"
                      /\ CostRead(tracker) > guardrails[g].max_cost

(* ---- initial state: run_with_guardrails has been called --------------- *)
GuardInit ==
  /\ guardrails \in SeqsUpTo(GuardrailChoices, MaxGuardrails)
  /\ agentOnCancel \in {"cancelled", "error", "result", "ignore"}
  /\ cost_tracker \in {EmptyTracker, "total" :> 0}
  /\ task = [t \in TaskIds |-> "pending"]
  /\ started = [t \in TaskIds |-> FALSE]
  /\ must_cancel = [t \in TaskIds |-> FALSE]
  /\ sched = [t \in TaskIds |-> "none"]
  /\ ready = <<>>
  /\ ntodo = 0
  /\ outer1 = "pending"
  /\ nfin1 = 0
  /\ outer2 = "pending"
  /\ nfin2 = 0
  /\ sup_pc = "start"
  /\ outcome = "none"
  /\ agent_steps = 0
  /\ agent_first = FALSE
  /\ exceeded = FALSE
  \* the other subsystems are not running
  /\ max_retries = 0
  /\ attempt = 0
  /\ jpc = "idle"
  /\ jhist = <<>>
  /\ jwaits = <<>>
  /\ jret = NoPair
  /\ ea_pc = "start"
  /\ ea_ret = NoPair
  /\ _tool_calls = <<>>
  /\ qvariant = [q \in Queries |-> "plain"]
  /\ qpc = [q \in Queries |-> "idle"]
  /\ qresp = [q \in Queries |-> NoResponse]
  /\ qissued = [q \in Queries |-> <<>>]
  /\ tool_nums = [q \in Queries |-> <<>>]
  /\ ground_truth = <<>>
  /\ ei = 1
  /\ epc = "loop"
  /\ results = <<>>
  /\ report = None
  /\ agent_result = NoResponse
  /\ judge_result = NoJudgeResult
  /\ ehist = <<>>
  /\ inflight = {}
  /\ exception = NoException
  /\ handled = <<>>
  /\ caught = <<>>
  /\ call_args = None
  /\ returned = <<>>
  /\ stream = <<>>
  /\ previous_text = <<>>
  /\ deltas = <<>>
  /\ tool_seen = <<>>
  /\ sresp = NoResponse

(* ---- run_with_guardrails, lines 99-103 -------------------------------- *)
\* the step callbacks / cleanup-gather callbacks of a sequence of task ids
StepCbs(s) == [i \in 1..Len(s) |-> StepCb(s[i])]

Gather2Cbs(s) == [i \in 1..Len(s) |-> Gather2Cb(s[i])]

IdSeq(lo, hi) == [i \in 1..(hi - lo + 1) |-> lo + i - 1]

\* create_task for the agent and each guardrail, gather() over all of them,
\* and the await that suspends run_with_guardrails
SupStart ==
  /\ sup_pc = "start"
  /\ ready' = ready \o StepCbs(IdSeq(0, NGuard))
  /\ sched' = [t \in TaskIds |-> "ready"]
  /\ sup_pc' = "await_gather"
  /\ UNCHANGED nonGuardVars
  /\ UNCHANGED <<guardrails, agentOnCancel, task, started, must_cancel, ntodo,
                 outer1, nfin1, outer2, nfin2, outcome, cost_tracker,
                 agent_steps, agent_first, exceeded>>

(* ---- the event loop ---------------------------------------------------- *)
\* sequences without repetition over the set S
Orderings(S) ==
  { f \in [1..Cardinality(S) -> S] : \A i, j \in 1..Cardinality(S) : f[i] = f[j] => i = j }

\* an iteration boundary: expired timers and completed I/O wake their tasks,
\* then the callbacks now queued form the next iteration
LoopPoll ==
  /\ sup_pc # "start"
  /\ ntodo = 0
  /\ \E W \in SUBSET { t \in TaskIds : sched[t] = "waiting" } :
       \E order \in Orderings(W) :
          /\ ready' = ready \o StepCbs(order)
          /\ sched' = [t \in TaskIds |-> IF t \in W THEN "ready" ELSE sched[t]]
  /\ ready' # <<>>
  /\ ntodo' = Len(ready')
  /\ UNCHANGED nonGuardVars
  /\ UNCHANGED <<guardrails, agentOnCancel, task, started, must_cancel,
                 outer1, nfin1, outer2, nfin2, sup_pc, outcome, cost_tracker,
                 agent_steps, agent_first, exceeded>>

\* the counter after the agent adds d to it
AddCost(tracker, d) ==
  IF d = 0 THEN tracker ELSE "total" :> (CostRead(tracker) + d)

\* one step of the agent coroutine: it runs until it suspends on I/O,
\* returns or raises; a requested cancellation is thrown into it first
AgentTaskStep ==
  /\ HeadIs("step")
  /\ Head(ready).t = AGENT
  /\ ntodo' = ntodo - 1
  /\ started' = [started EXCEPT ![AGENT] = TRUE]
  /\ IF must_cancel[AGENT] /\ (~started[AGENT] \/ agentOnCancel = "cancelled")
       THEN /\ FinishTask(AGENT, "cancelled")
            /\ UNCHANGED <<cost_tracker, agent_steps, agent_first, exceeded>>
       ELSE IF must_cancel[AGENT] /\ agentOnCancel \in {"error", "result"}
       THEN /\ FinishTask(AGENT, agentOnCancel)
            /\ agent_steps' = agent_steps + 1
            /\ UNCHANGED <<cost_tracker, agent_first, exceeded>>
       ELSE \E d \in 0..(CostCap - CostRead(cost_tracker)) :
            \E next \in {"await", "result", "error"} :
               /\ next = "await" => agent_steps < MaxAgentSteps
               /\ cost_tracker' = AddCost(cost_tracker, d)
               /\ agent_steps' = agent_steps + 1
               /\ exceeded' = (exceeded \/ (next = "await" /\ Exceeds(cost_tracker')))
               /\ agent_first' = (agent_first \/ (next = "result" /\ ~AnyTripped))
               /\ IF next = "await"
                    THEN /\ sched' = [sched EXCEPT ![AGENT] = "waiting"]
                         /\ must_cancel' = [must_cancel EXCEPT ![AGENT] = FALSE]
                         /\ ready' = Tail(ready)
                         /\ UNCHANGED task
                    ELSE FinishTask(AGENT, next)
  /\ UNCHANGED nonGuardVars
  /\ UNCHANGED <<guardrails, agentOnCancel, outer1, nfin1, outer2, nfin2,
                 sup_pc, outcome>>

\* one step of a cost_guardrail task: sleep, then poll the counter
CostGuardrailStep ==
  /\ HeadIs("step")
  /\ Head(ready).t \in GuardIds
  /\ guardrails[Head(ready).t].kind = "cost"
  /\ LET t == Head(ready).t IN
       /\ started' = [started EXCEPT ![t] = TRUE]
       /\ IF must_cancel[t] THEN FinishTask(t, "cancelled")
          ELSE IF ~started[t] THEN SuspendTask(t)
          ELSE IF CostTrips(guardrails[t].max_cost, cost_tracker)
                 THEN FinishTask(t, "trip")
                 ELSE SuspendTask(t)
  /\ ntodo' = ntodo - 1
  /\ UNCHANGED nonGuardVars
  /\ UNCHANGED <<guardrails, agentOnCancel, outer1, nfin1, outer2, nfin2,
                 sup_pc, outcome, cost_tracker, agent_steps, agent_first, exceeded>>

\* the only step of a query_guardrail task
QueryGuardrailStep ==
  /\ HeadIs("step")
  /\ Head(ready).t \in GuardIds
  /\ guardrails[Head(ready).t].kind = "query"
  /\ LET t == Head(ready).t IN
       /\ started' = [started EXCEPT ![t] = TRUE]
       /\ IF must_cancel[t] THEN FinishTask(t, "cancelled")
          ELSE IF QueryTrips(guardrails[t].question, guardrails[t].blocked_keywords)
                 THEN FinishTask(t, "trip")
                 ELSE FinishTask(t, "result")
  /\ ntodo' = ntodo - 1
  /\ UNCHANGED nonGuardVars
  /\ UNCHANGED <<guardrails, agentOnCancel, outer1, nfin1, outer2, nfin2,
                 sup_pc, outcome, cost_tracker, agent_steps, agent_first, exceeded>>

\* gather(agent_task, *guardrail_tasks): a child is done.  The first child
\* exception (or cancellation) completes the gather; otherwise it completes
\* when every child has finished.
GatherDoneCallback ==
  /\ HeadIs("gather1")
  /\ LET t == Head(ready).t
         fails == outer1 = "pending" /\ task[t] \in {"cancelled", "error", "trip"}
         last == outer1 = "pending" /\ ~fails /\ nfin1 + 1 = NGuard + 1
     IN /\ outer1' = IF fails THEN task[t] ELSE IF last THEN "result" ELSE outer1
        /\ nfin1' = IF outer1 = "pending" /\ ~fails THEN nfin1 + 1 ELSE nfin1
        /\ ready' = Tail(ready) \o (IF fails \/ last THEN <<WakeCb>> ELSE <<>>)
  /\ ntodo' = ntodo - 1
  /\ UNCHANGED nonGuardVars
  /\ UNCHANGED <<guardrails, agentOnCancel, task, started, must_cancel, sched,
                 outer2, nfin2, sup_pc, outcome, cost_tracker, agent_steps,
                 agent_first, exceeded>>

\* gather(*guardrail_tasks, return_exceptions=True): a child is done
CleanupDoneCallback ==
  /\ HeadIs("gather2")
  /\ LET last == outer2 = "pending" /\ nfin2 + 1 = NGuard
     IN /\ outer2' = IF last THEN "done" ELSE outer2
        /\ nfin2' = IF outer2 = "pending" THEN nfin2 + 1 ELSE nfin2
        /\ ready' = Tail(ready) \o (IF last THEN <<WakeCb>> ELSE <<>>)
  /\ ntodo' = ntodo - 1
  /\ UNCHANGED nonGuardVars
  /\ UNCHANGED <<guardrails, agentOnCancel, task, started, must_cancel, sched,
                 outer1, nfin1, sup_pc, outcome, cost_tracker, agent_steps,
                 agent_first, exceeded>>

(* ---- run_with_guardrails, lines 103-119 -------------------------------- *)
\* `await agent_task`: the awaiter suspends unless the task is already done
AwaitSuspends_Never(st) == FALSE

AwaitSuspends(st) == st = "pending"

\* lines 115-119: cancel every guardrail task, gather them with
\* return_exceptions=True, then re-raise; mc, sc and rdy are must_cancel,
\* sched and ready as the handler has left them so far
CancelGuardrailsAndGather(mc, sc, rdy) ==
  LET pend == { g \in GuardIds : task[g] = "pending" }
      wake == SelectSeq(IdSeq(1, NGuard), LAMBDA g : g \in pend /\ sc[g] = "waiting")
      fin  == SelectSeq(IdSeq(1, NGuard), LAMBDA g : g \notin pend)
  IN /\ must_cancel' = [t \in TaskIds |-> IF t \in pend THEN TRUE ELSE mc[t]]
     /\ sched' = [t \in TaskIds |->
                    IF t \in pend /\ sc[t] = "waiting" THEN "ready" ELSE sc[t]]
     /\ ready' = rdy \o StepCbs(wake) \o Gather2Cbs(fin)
     /\ IF NGuard = 0
          THEN sup_pc' = "exit" /\ outcome' = "trip"
          ELSE sup_pc' = "await_cleanup" /\ outcome' = outcome

\* run_with_guardrails leaves with the given outcome
SupExit(how) ==
  /\ sup_pc' = "exit"
  /\ outcome' = how
  /\ ready' = Tail(ready)
  /\ UNCHANGED <<must_cancel, sched>>

\* run_with_guardrails is resumed by the future it awaits
SupWakeup ==
  /\ HeadIs("wake")
  /\ ntodo' = ntodo - 1
  /\ IF sup_pc = "await_gather" /\ outer1 # "trip"
       THEN \* line 104, or an exception that `except GuardrailException` lets pass
            SupExit(outer1)
     ELSE IF sup_pc = "await_gather"
       THEN \* lines 106-111: agent_task.cancel(), await agent_task
            LET live == task[AGENT] = "pending"
                mc == [must_cancel EXCEPT ![AGENT] = live]
                sc == [sched EXCEPT ![AGENT] =
                         IF live /\ @ = "waiting" THEN "ready" ELSE @]
                rdy == Tail(ready)
                       \o (IF live /\ sched[AGENT] = "waiting"
                             THEN <<StepCb(AGENT)>> ELSE <<>>)
            IN IF AwaitSuspends(task[AGENT])
                 THEN /\ sup_pc' = "await_agent"
                      /\ must_cancel' = mc
                      /\ sched' = sc
                      /\ ready' = rdy
                      /\ UNCHANGED outcome
               ELSE IF task[AGENT] = "error"
                 THEN SupExit("error")
               ELSE CancelGuardrailsAndGather(mc, sc, rdy)
     ELSE IF sup_pc = "await_agent"
       THEN \* line 111 resumed: CancelledError is caught, another exception is not
            IF task[AGENT] = "error"
              THEN SupExit("error")
              ELSE CancelGuardrailsAndGather(must_cancel, sched, Tail(ready))
     ELSE \* line 119
          SupExit("trip")
  /\ UNCHANGED nonGuardVars
  /\ UNCHANGED <<guardrails, agentOnCancel, task, started, outer1, nfin1,
                 outer2, nfin2, cost_tracker, agent_steps, agent_first, exceeded>>

GuardNext ==
  \/ SupStart
  \/ LoopPoll
  \/ AgentTaskStep
  \/ CostGuardrailStep
  \/ QueryGuardrailStep
  \/ GatherDoneCallback
  \/ CleanupDoneCallback
  \/ SupWakeup

(* ------------------------- claims: guardrails --------------------------- *)
AllTasksDone == \A t \in TaskIds : task[t] # "pending"

\* C1: when run_with_guardrails raises GuardrailException, the agent task and
\* every guardrail task have finished or been cancelled and awaited: none of
\* them is still pending, and no cancellation is left undelivered.
C1_TripLeavesNoTaskPending ==
  outcome = "trip" =>
     /\ AllTasksDone
     /\ \A t \in TaskIds : ~must_cancel[t]

\* a trip that cancelled the running agent and a sibling guardrail
C1_Witness ==
  /\ outcome = "trip"
  /\ task[AGENT] = "cancelled"
  /\ \E g, h \in GuardIds : task[g] = "trip" /\ task[h] = "cancelled"

\* C2 (as claimed): once the agent task has completed with a result before
\* any guardrail tripped, run_with_guardrails eventually returns.
C2_AgentFirstEventuallyReturns == agent_first ~> (sup_pc = "exit")

\* C3 (as claimed): on every exit of run_with_guardrails no task it created
\* is still pending.
C3_NoTaskPendingOnAnyExit == sup_pc = "exit" => AllTasksDone

\* C4 (as claimed): if the agent completed with a result before any guardrail
\* tripped, the outcome of the call is that result.
C4_FirstResolvedDecides == (agent_first /\ sup_pc = "exit") => outcome = "result"

\* C5 (as claimed): if the cost counter was above max_cost while the agent
\* task was still running, the outcome of the call is a guardrail trip.
C5_ExceededCostMeansTrip == (exceeded /\ sup_pc = "exit") => outcome = "trip"

\* C16 (as claimed): in every run in which the content guardrail tripped, the
\* agent coroutine has executed no step of its body: the trip comes before
\* the agent task is started.
C16_ContentTripBeforeAgentStarts ==
  (\E t \in GuardIds : guardrails[t].kind = "query" /\ task[t] = "trip")
     => agent_steps = 0

\* C17: query_guardrail raises GuardrailException exactly when at least one
\* non-empty blocked keyword is a case-insensitive substring of the question
\* (never with an empty list or a list of empty strings only), and it
\* evaluates the question in one step: once started it is done, it never
\* sleeps.
C17_QueryGuardrailTripsIffKeywordOccurs ==
  \A t \in GuardIds :
     guardrails[t].kind = "query" =>
        LET question == guardrails[t].question
            keywords == guardrails[t].blocked_keywords
            occurs(kw) ==
               \E i \in 0..(Len(question) - Len(kw)) :
                  \A j \in 1..Len(kw) : Lower(question[i + j]) = Lower(kw[j])
        IN /\ started[t] => task[t] # "pending"
           /\ sched[t] # "waiting"
           /\ task[t] \in {"trip", "result"} =>
                (task[t] = "trip" <=>
                   \E k \in DOMAIN keywords : keywords[k] # <<>> /\ occurs(keywords[k]))

\* a content guardrail whose second keyword, in upper case, occurs in the
\* question has tripped, and one with an empty keyword only has returned
C17_Witness ==
  \E t, u \in GuardIds :
     /\ guardrails[t].kind = "query" /\ guardrails[u].kind = "query"
     /\ guardrails[t].blocked_keywords = << <<"x">>, <<"I">> >> /\ task[t] = "trip"
     /\ guardrails[u].blocked_keywords = << <<>> >> /\ task[u] = "result"

\* C18: a pending cost_guardrail never returns normally; it trips only in a
\* poll (a step after its sleep, with no cancellation requested) at which the
\* counter, read as 0 when the tracker has no 'total', is strictly above
\* max_cost; in every poll at which the counter is above max_cost it raises at
\* that poll, and in every poll at which the counter is at or below max_cost
\* it does not trip and sleeps again.
C18_CostGuardrailTripsOnlyAboveLimit ==
  [][\A t \in GuardIds :
       (guardrails[t].kind = "cost" /\ task[t] = "pending") =>
          LET polls == /\ HeadIs("step") /\ Head(ready).t = t
                       /\ started[t] /\ ~must_cancel[t]
              current_cost == IF "total" \in DOMAIN cost_tracker
                                THEN cost_tracker["total"] ELSE 0
              max_cost == guardrails[t].max_cost
          IN /\ task'[t] # "result"
             /\ task'[t] = "trip" => (polls /\ current_cost > max_cost)
             /\ (polls /\ current_cost > max_cost) => task'[t] = "trip"
             /\ (polls /\ current_cost <= max_cost) =>
                    (task'[t] = "pending" /\ sched'[t] = "waiting")]_vars

\* with the counter at 1, the cost guardrail with max_cost 0 has tripped and
\* the one with max_cost 1 has been started and sleeps
C18_Witness ==
  \E t, u \in GuardIds :
     /\ guardrails[t].kind = "cost" /\ guardrails[t].max_cost = 0
     /\ guardrails[u].kind = "cost" /\ guardrails[u].max_cost = 1
     /\ cost_tracker = ("total" :> 1)
     /\ task[t] = "trip"
     /\ task[u] = "pending" /\ started[u] /\ sched[u] = "waiting"

(* ============================== JUDGE ================================== *)
\* largest max_retries tried
MaxRetriesBound == 3
\* largest input_tokens / output_tokens a judge run reports
MaxJudgeTokens == 1

\* JudgeEvaluation values a judge run can produce; scores are in halves
JudgeOutputs ==
  { [overall_score |-> 2, accuracy |-> 2, completeness |-> 1, relevance |-> 2,
     reasoning |-> "judge"],
    [overall_score |-> 1, accuracy |-> 1, completeness |-> 1, relevance |-> 0,
     reasoning |-> "judge"],
    [overall_score |-> 0, accuracy |-> 0, completeness |-> 0, relevance |-> 0,
     reasoning |-> "judge"] }

\* outcomes of one `await judge_agent.run(prompt)`
JudgeRuns ==
  { [ok |-> FALSE, output |-> "none", input_tokens |-> 0, output_tokens |-> 0] }
  \cup { [ok |-> TRUE, output |-> o, input_tokens |-> i, output_tokens |-> u] :
           o \in JudgeOutputs, i \in 0..MaxJudgeTokens, u \in 0..MaxJudgeTokens }

\* lines 48-52
UsageDict(run) ==
  [input_tokens |-> run.input_tokens,
   output_tokens |-> run.output_tokens,
   total_tokens |-> run.input_tokens + run.output_tokens]

\* lines 59-70
FallbackPair ==
  [evaluation |-> [overall_score |-> 0, accuracy |-> 0, completeness |-> 0,
                   relevance |-> 0, reasoning |-> "Judge evaluation failed"],
   usage |-> [input_tokens |-> 0, output_tokens |-> 0, total_tokens |-> 0]]

\* line 54
IsLastAttempt_OffByOne(a, m) == a = m

IsLastAttempt(a, m) == a = m - 1

RECURSIVE Pow2(_)
Pow2(k) == IF k = 0 THEN 1 ELSE 2 * Pow2(k - 1)

WaitTime_TwiceAttempt(a) == 2 * a

\* line 73: wait_time = 2**attempt
WaitTime(a) == Pow2(a)

JudgeInit ==
  /\ max_retries \in 0..MaxRetriesBound
  /\ attempt = 0
  /\ jpc = "idle"
  /\ jhist = <<>>
  /\ jwaits = <<>>
  /\ jret = NoPair
  /\ ea_pc = "start"
  /\ ea_ret = NoPair
  \* the other subsystems are not running
  /\ guardrails = <<>>
  /\ agentOnCancel = "cancelled"
  /\ cost_tracker = EmptyTracker
  /\ task = [t \in {0} |-> "pending"]
  /\ started = [t \in {0} |-> FALSE]
  /\ must_cancel = [t \in {0} |-> FALSE]
  /\ sched = [t \in {0} |-> "none"]
  /\ ready = <<>>
  /\ ntodo = 0
  /\ outer1 = "pending"
  /\ nfin1 = 0
  /\ outer2 = "pending"
  /\ nfin2 = 0
  /\ sup_pc = "start"
  /\ outcome = "none"
  /\ agent_steps = 0
  /\ agent_first = FALSE
  /\ exceeded = FALSE
  /\ _tool_calls = <<>>
  /\ qvariant = [q \in Queries |-> "plain"]
  /\ qpc = [q \in Queries |-> "idle"]
  /\ qresp = [q \in Queries |-> NoResponse]
  /\ qissued = [q \in Queries |-> <<>>]
  /\ tool_nums = [q \in Queries |-> <<>>]
  /\ ground_truth = <<>>
  /\ ei = 1
  /\ epc = "loop"
  /\ results = <<>>
  /\ report = None
  /\ agent_result = NoResponse
  /\ judge_result = NoJudgeResult
  /\ ehist = <<>>
  /\ inflight = {}
  /\ exception = NoException
  /\ handled = <<>>
  /\ caught = <<>>
  /\ call_args = None
  /\ returned = <<>>
  /\ stream = <<>>
  /\ previous_text = <<>>
  /\ deltas = <<>>
  /\ tool_seen = <<>>
  /\ sresp = NoResponse

\* evaluate_answer, lines 106-151: build the judge agent and the prompt and
\* call _run_judge_with_retry
EvaluateAnswerCall ==
  /\ ea_pc = "start"
  /\ ea_pc' = "judging"
  /\ jpc' = "loop"
  /\ attempt' = 0
  /\ UNCHANGED <<max_retries, jhist, jwaits, jret, ea_ret>>
  /\ UNCHANGED nonJudgeVars

\* line 42: the for loop takes the next attempt, or is exhausted and falls
\* through to line 80
JudgeLoopHead ==
  /\ jpc = "loop"
  /\ jpc' = IF attempt < max_retries THEN "invoke" ELSE "raised"
  /\ UNCHANGED <<max_retries, attempt, jhist, jwaits, jret, ea_pc, ea_ret>>
  /\ UNCHANGED nonJudgeVars

\* lines 43-77: one judge invocation, its return or its except branch
JudgeInvoke ==
  /\ jpc = "invoke"
  /\ \E run \in JudgeRuns :
       /\ jhist' = Append(jhist, run)
       /\ IF run.ok
            THEN /\ jret' = [evaluation |-> run.output, usage |-> UsageDict(run)]
                 /\ jpc' = "returned"
                 /\ UNCHANGED jwaits
          ELSE IF IsLastAttempt(attempt, max_retries)
            THEN /\ jret' = FallbackPair
                 /\ jpc' = "returned"
                 /\ UNCHANGED jwaits
          ELSE /\ jwaits' = Append(jwaits, WaitTime(attempt))
               /\ jpc' = "sleep"
               /\ UNCHANGED jret
  /\ UNCHANGED <<max_retries, attempt, ea_pc, ea_ret>>
  /\ UNCHANGED nonJudgeVars

\* line 77: the sleep is over, the loop goes to the next attempt
JudgeSleepDone ==
  /\ jpc = "sleep"
  /\ attempt' = attempt + 1
  /\ jpc' = "loop"
  /\ UNCHANGED <<max_retries, jhist, jwaits, jret, ea_pc, ea_ret>>
  /\ UNCHANGED nonJudgeVars

\* evaluate_answer, lines 149-161: hand on what _run_judge_with_retry
\* returned or raised
EvaluateAnswerReturn ==
  /\ ea_pc = "judging"
  /\ jpc \in {"returned", "raised"}
  /\ ea_pc' = jpc
  /\ ea_ret' = jret
  /\ UNCHANGED <<max_retries, attempt, jpc, jhist, jwaits, jret>>
  /\ UNCHANGED nonJudgeVars

JudgeNext ==
  \/ EvaluateAnswerCall
  \/ JudgeLoopHead
  \/ JudgeInvoke
  \/ JudgeSleepDone
  \/ EvaluateAnswerReturn

(* --------------------------- claims: judge ------------------------------ *)
Last(s) == s[Len(s)]

\* C8: for max_retries >= 1 the judge is invoked at most max_retries times,
\* never again after a success, and the call returns the evaluation and usage
\* of the first successful invocation, or, when all max_retries invocations
\* failed, the all-zero fallback evaluation with zero usage.
C8_RetryReturnsFirstSuccessOrFallback ==
  max_retries >= 1 =>
     /\ Len(jhist) <= max_retries
     /\ \A i \in 1..(Len(jhist) - 1) : ~jhist[i].ok
     /\ jpc # "raised"
     /\ jpc = "returned" =>
          /\ jhist # <<>>
          /\ IF Last(jhist).ok
               THEN /\ jret.evaluation = Last(jhist).output
                    /\ jret.usage.input_tokens = Last(jhist).input_tokens
                    /\ jret.usage.output_tokens = Last(jhist).output_tokens
                    /\ jret.usage.total_tokens =
                         Last(jhist).input_tokens + Last(jhist).output_tokens
               ELSE /\ Len(jhist) = max_retries
                    /\ jret.evaluation.overall_score = 0
                    /\ jret.evaluation.accuracy = 0
                    /\ jret.evaluation.completeness = 0
                    /\ jret.evaluation.relevance = 0
                    /\ jret.usage.input_tokens = 0
                    /\ jret.usage.output_tokens = 0
                    /\ jret.usage.total_tokens = 0

\* fail, fail, succeed: the third attempt's score is returned
C8_Witness ==
  /\ max_retries = 3
  /\ jpc = "returned"
  /\ Len(jhist) = 3
  /\ ~jhist[1].ok /\ ~jhist[2].ok /\ jhist[3].ok
  /\ jret.evaluation.overall_score = 2
  /\ jret.usage.total_tokens = 2

\* C9 (as claimed): for every max_retries, 0 included, and every sequence of
\* judge failures, _run_judge_with_retry and evaluate_answer return a pair
\* and do not raise.
C9_JudgeNeverRaises == jpc # "raised" /\ ea_pc # "raised"

Keywords ==
  [wikipedia |-> <<"w", "i", "k", "i", "p", "e", "d", "i", "a">>,
   http |-> <<"h", "t", "t", "p">>,
   connection |-> <<"c", "o", "n", "n", "e", "c", "t", "i", "o", "n">>,
   timeout |-> <<"t", "i", "m", "e", "o", "u", "t">>]

\* wikipagent.py lines 137, 144, 151: the literals of the except block
Literals ==
  [Wikipedia |-> <<"W", "i", "k", "i", "p", "e", "d", "i", "a">>,
   HTTP |-> <<"H", "T", "T", "P">>,
   Connection |-> <<"C", "o", "n", "n", "e", "c", "t", "i", "o", "n">>,
   Timeout |-> <<"T", "i", "m", "e", "o", "u", "t">>]

\* config.py lines 70, 76, 82: the error_type of each mapping
ErrorTypes ==
  [WikipediaAPI |-> <<"W", "i", "k", "i", "p", "e", "d", "i", "a", "A", "P", "I">>,
   Network |-> <<"N", "e", "t", "w", "o", "r", "k">>,
   Timeout |-> <<"T", "i", "m", "e", "o", "u", "t">>]

\* type(exception).__name__ of the failures considered
ClassNames ==
  [RuntimeError |-> <<"R", "u", "n", "t", "i", "m", "e", "E", "r", "r", "o", "r">>,
   ValueError |-> <<"V", "a", "l", "u", "e", "E", "r", "r", "o", "r">>,
   KeyError |-> <<"K", "e", "y", "E", "r", "r", "o", "r">>,
   ConnectionError |->
      <<"C", "o", "n", "n", "e", "c", "t", "i", "o", "n", "E", "r", "r", "o",
        "r">>,
   TimeoutError |-> <<"T", "i", "m", "e", "o", "u", "t", "E", "r", "r", "o", "r">>,
   HTTPError |-> <<"H", "T", "T", "P", "E", "r", "r", "o", "r">>,
   GuardrailException |->
      <<"G", "u", "a", "r", "d", "r", "a", "i", "l", "E", "x", "c", "e", "p",
        "t", "i", "o", "n">>]

\* week3 tools.py lines 57 and 102: the prefix of a re-raised request failure
\* "Failed to search Wikipedia: "
FailedToSearch ==
  <<"F", "a", "i", "l", "e", "d", " ", "t", "o", " ", "s", "e", "a", "r",
    "c", "h", " ", "W", "i", "k", "i", "p", "e", "d", "i", "a", ":", " ">>
\* "Failed to get Wikipedia page: "
FailedToGetPage ==
  <<"F", "a", "i", "l", "e", "d", " ", "t", "o", " ", "g", "e", "t", " ",
    "W", "i", "k", "i", "p", "e", "d", "i", "a", " ", "p", "a", "g", "e",
    ":", " ">>

\* str() of the requests.Timeout raised when the 10 s timeout of
\* requests.get (week3 tools.py lines 36, 88) expires
\* "HTTPSConnectionPool(host='en.wikipedia.org', port=443): Read timed out. (read timeout=10)"
ReadTimedOut ==
  <<"H", "T", "T", "P", "S", "C", "o", "n", "n", "e", "c", "t", "i", "o",
    "n", "P", "o", "o", "l", "(", "h", "o", "s", "t", "=", "'", "e", "n",
    ".", "w", "i", "k", "i", "p", "e", "d", "i", "a", ".", "o", "r", "g",
    "'", ",", " ", "p", "o", "r", "t", "=", "4", "4", "3", ")", ":", " ",
    "R", "e", "a", "d", " ", "t", "i", "m", "e", "d", " ", "o", "u", "t",
    ".", " ", "(", "r", "e", "a", "d", " ", "t", "i", "m", "e", "o", "u",
    "t", "=", "1", "0", ")">>
\* "Connection to en.wikipedia.org timed out. (connect timeout=10)"
ConnectTimedOut ==
  <<"C", "o", "n", "n", "e", "c", "t", "i", "o", "n", " ", "t", "o", " ",
    "e", "n", ".", "w", "i", "k", "i", "p", "e", "d", "i", "a", ".", "o",
    "r", "g", " ", "t", "i", "m", "e", "d", " ", "o", "u", "t", ".", " ",
    "(", "c", "o", "n", "n", "e", "c", "t", " ", "t", "i", "m", "e", "o",
    "u", "t", "=", "1", "0", ")">>

\* guardrails.py lines 45 and 74: the messages of a trip
\* "Query contains blocked keyword: "
BlockedKeywordPrefix ==
  <<"Q", "u", "e", "r", "y", " ", "c", "o", "n", "t", "a", "i", "n", "s",
    " ", "b", "l", "o", "c", "k", "e", "d", " ", "k", "e", "y", "w", "o",
    "r", "d", ":", " ">>
\* "Cost limit exceeded: $2.00 (limit: $1.00)"
CostLimitExceeded ==
  <<"C", "o", "s", "t", " ", "l", "i", "m", "i", "t", " ", "e", "x", "c",
    "e", "e", "d", "e", "d", ":", " ", "$", "2", ".", "0", "0", " ", "(",
    "l", "i", "m", "i", "t", ":", " ", "$", "1", ".", "0", "0", ")">>
\* "bomb"
kw_bomb ==
  <<"b", "o", "m", "b">>

\* messages of other failures of an agent run
Messages ==
  [BadValue |-> <<"b", "a", "d", " ", "v", "a", "l", "u", "e">>,
   ApiKey |-> <<"A", "P", "I", " ", "k", "e", "y", " ", "i", "n", "v", "a", "l", "i", "d">>,
   Http500 |-> <<"H", "T", "T", "P", " ", "5", "0", "0">>,
   Refused |->
      <<"C", "o", "n", "n", "e", "c", "t", "i", "o", "n", " ", "r", "e", "f",
        "u", "s", "e", "d">>,
   RequestTimeout |-> <<"r", "e", "q", "u", "e", "s", "t", " ", "t", "i", "m", "e", "o", "u", "t">>,
   HttpLower |->
      <<"h", "t", "t", "p", " ", "c", "o", "n", "n", "e", "c", "t", "i", "o",
        "n", " ", "t", "i", "m", "e", "o", "u", "t">>,
   PageMissing |->
      <<"W", "i", "k", "i", "p", "e", "d", "i", "a", " ", "p", "a", "g", "e",
        " ", "m", "i", "s", "s", "i", "n", "g">>,
   Unreachable |->
      <<"w", "i", "k", "i", "p", "e", "d", "i", "a", " ", "u", "n", "r", "e",
        "a", "c", "h", "a", "b", "l", "e">>]

\* config.py lines 17-22: the members of ErrorCategory in definition order,
\* which is the order `for category in ErrorCategory` visits them
ErrorCategory == <<"wikipedia", "connection", "timeout">>

\* config.py lines 68-87
ERROR_MAPPINGS ==
  [wikipedia  |-> [error_type |-> ErrorTypes.WikipediaAPI, keywords |-> <<Keywords.wikipedia, Keywords.http>>],
   connection |-> [error_type |-> ErrorTypes.Network, keywords |-> <<Keywords.connection>>],
   timeout    |-> [error_type |-> ErrorTypes.Timeout, keywords |-> <<Keywords.timeout>>]]

\* error_handler.py lines 32-36: does a keyword of the category occur in the
\* lower-cased message or the lower-cased type name?
CategoryMatches(category, e) ==
  LET keywords == ERROR_MAPPINGS[category].keywords
      error_msg == LowerStr(e.msg)
      error_type_lower == LowerStr(e.type)
  IN \E k \in 1..Len(keywords) :
        \/ Contains(error_msg, keywords[k])
        \/ Contains(error_type_lower, keywords[k])

\* error_handler.py lines 30-38: the loop with its break; 0 when the loop
\* ends with error_config = None
RECURSIVE FirstMatchingCategory(_, _)
FirstMatchingCategory(e, i) ==
  IF i > Len(ErrorCategory) THEN 0
  ELSE IF CategoryMatches(ErrorCategory[i], e) THEN i
  ELSE FirstMatchingCategory(e, i + 1)

\* error_handler.py lines 40-53
AgentErrorFor(e) ==
  LET i == FirstMatchingCategory(e, 1) IN
    [error_type |-> IF i # 0 THEN ERROR_MAPPINGS[ErrorCategory[i]].error_type ELSE e.type,
     technical_details |-> e.msg]

\* error_handler.py lines 10-60
handle_agent_error(e, tool_calls) ==
  [answer |-> None, tool_calls |-> tool_calls, usage |-> None, error |-> AgentErrorFor(e)]

\* wikipagent.py lines 133-164 (and 333-364): the classification written out
\* in the except block, on the message as raised and the type name as is
InlineAgentErrorFor(e) ==
  LET error_type == e.type
      error_msg == e.msg
  IN [error_type |->
        IF Contains(error_msg, Literals.Wikipedia) \/ Contains(error_msg, Literals.HTTP)
          THEN ErrorTypes.WikipediaAPI
        ELSE IF Contains(error_type, Literals.Connection) \/ Contains(LowerStr(error_msg), Keywords.connection)
          THEN ErrorTypes.Network
        ELSE IF Contains(error_type, Literals.Timeout) \/ Contains(LowerStr(error_msg), Keywords.timeout)
          THEN ErrorTypes.Timeout
        ELSE error_type,
      technical_details |-> error_msg]

ExceptBlockResponse_KeepsAnswer(e, tool_calls) ==
  [answer |-> SearchAgentAnswer(<<>>), tool_calls |-> tool_calls, usage |-> None,
   error |-> InlineAgentErrorFor(e)]
\* wikipagent.py lines 129-171 and 329-371
ExceptBlockResponse(e, tool_calls) ==
  [answer |-> None, tool_calls |-> tool_calls, usage |-> None,
   error |-> InlineAgentErrorFor(e)]

\* guardrails.py lines 44-50 and 73-79: the GuardrailException of a trip of
\* the content guardrail on a keyword, or of the cost guardrail
GuardrailTrips ==
  { [type |-> ClassNames.GuardrailException, msg |-> m] :
      m \in { BlockedKeywordPrefix \o kw : kw \in {Keywords.http, Keywords.timeout, Literals.Connection, kw_bomb} }
            \cup { CostLimitExceeded } }

\* week3 tools.py lines 56-57 and 101-102: the RuntimeError of a request of
\* wikipedia_search or wikipedia_get_page whose timeout expired
ToolTimeouts ==
  { [type |-> ClassNames.RuntimeError, msg |-> prefix \o detail] :
      prefix \in {FailedToSearch, FailedToGetPage},
      detail \in {ReadTimedOut, ConnectTimedOut} }

\* other failures of an agent run
OtherFailures ==
  { [type |-> t, msg |-> m] :
      t \in {ClassNames.RuntimeError, ClassNames.ValueError, ClassNames.KeyError,
             ClassNames.ConnectionError, ClassNames.TimeoutError, ClassNames.HTTPError},
      m \in {<<>>, Messages.BadValue, Messages.ApiKey, Messages.Http500, Messages.Refused,
             Messages.RequestTimeout, Messages.HttpLower, Messages.PageMissing, Messages.Unreachable} }

Exceptions == GuardrailTrips \cup ToolTimeouts \cup OtherFailures

\* the tool calls recorded before the failure
RecordedToolCalls ==
  { <<>>, << [tool_name |-> "wikipedia_search", args |-> <<1, 0>>] >> }

ErrorInit ==
  /\ exception \in Exceptions
  /\ handled = <<>>
  /\ caught = <<>>
  /\ call_args = None
  /\ returned = <<>>
  /\ stream = <<>>
  /\ previous_text = <<>>
  /\ deltas = <<>>
  /\ tool_seen = <<>>
  /\ sresp = NoResponse
  \* the other subsystems are not running
  /\ guardrails = <<>>
  /\ agentOnCancel = "cancelled"
  /\ cost_tracker = EmptyTracker
  /\ task = [t \in {0} |-> "pending"]
  /\ started = [t \in {0} |-> FALSE]
  /\ must_cancel = [t \in {0} |-> FALSE]
  /\ sched = [t \in {0} |-> "none"]
  /\ ready = <<>>
  /\ ntodo = 0
  /\ outer1 = "pending"
  /\ nfin1 = 0
  /\ outer2 = "pending"
  /\ nfin2 = 0
  /\ sup_pc = "start"
  /\ outcome = "none"
  /\ agent_steps = 0
  /\ agent_first = FALSE
  /\ exceeded = FALSE
  /\ max_retries = 0
  /\ attempt = 0
  /\ jpc = "idle"
  /\ jhist = <<>>
  /\ jwaits = <<>>
  /\ jret = NoPair
  /\ ea_pc = "start"
  /\ ea_ret = NoPair
  /\ ground_truth = <<>>
  /\ ei = 1
  /\ epc = "loop"
  /\ results = <<>>
  /\ report = None
  /\ agent_result = NoResponse
  /\ judge_result = NoJudgeResult
  /\ ehist = <<>>
  /\ inflight = {}
  /\ _tool_calls = <<>>
  /\ qvariant = [q \in Queries |-> "plain"]
  /\ qpc = [q \in Queries |-> "idle"]
  /\ qresp = [q \in Queries |-> NoResponse]
  /\ qissued = [q \in Queries |-> <<>>]
  /\ tool_nums = [q \in Queries |-> <<>>]

\* handle_agent_error is called with the failure
HandleAgentError ==
  /\ handled = <<>>
  /\ \E tool_calls \in RecordedToolCalls :
       handled' = << handle_agent_error(exception, tool_calls) >>
  /\ UNCHANGED <<exception, caught>>
  /\ UNCHANGED nonErrorVars

\* the failure is raised by agent.run inside the try of query_wikipedia
QueryExceptBlock ==
  /\ caught = <<>>
  /\ \E tool_calls \in RecordedToolCalls :
       caught' = << ExceptBlockResponse(exception, tool_calls) >>
  /\ UNCHANGED <<exception, handled>>
  /\ UNCHANGED nonErrorVars

ErrorNext == HandleAgentError \/ QueryExceptBlock

(* --------------------- claims: error handling --------------------------- *)
\* the categories the specification names and the code does not define
\* "GuardrailTrip"
GuardrailTrip ==
  <<"G", "u", "a", "r", "d", "r", "a", "i", "l", "T", "r", "i", "p">>
\* "Unknown"
Unknown ==
  <<"U", "n", "k", "n", "o", "w", "n">>

\* every response returned for the failure so far, by either classifier
ErrorResponses == { handled[i] : i \in DOMAIN handled } \cup { caught[i] : i \in DOMAIN caught }

\* C12 (as claimed): a GuardrailException of the cost or content guardrail is
\* reported with category GuardrailTrip whatever its message contains, never
\* with WikipediaAPI, Network, Timeout or the class name.
C12_TripIsReportedAsGuardrailTrip ==
  exception \in GuardrailTrips =>
     \A r \in ErrorResponses : r.error.error_type = GuardrailTrip

\* C13 (as claimed): handle_agent_error gives the category of the first
\* keyword table, in table order, having a keyword that occurs in the type
\* name or the message, and the category Unknown when no table matches.
C13_FirstMatchingTableElseUnknown ==
  \A i \in DOMAIN handled :
     LET hits == { c \in DOMAIN ErrorCategory : CategoryMatches(ErrorCategory[c], exception) } IN
       handled[i].error.error_type =
          IF hits = {} THEN Unknown
          ELSE ERROR_MAPPINGS[ErrorCategory[CHOOSE c \in hits : \A d \in hits : c <= d]].error_type

\* C14 (as claimed): the failure of wikipedia_search or wikipedia_get_page
\* whose 10 s request timeout expired is classified as Timeout.
C14_ToolTimeoutIsClassifiedTimeout ==
  exception \in ToolTimeouts =>
     \A r \in ErrorResponses : r.error.error_type = ErrorTypes.Timeout

\* C29 (as claimed): handle_agent_error and the except branch of
\* query_wikipedia / query_wikipedia_stream give every exception the same
\* error: the same error_type (which fixes message and suggestion) and the
\* same technical details.
C29_ClassifiersAgree ==
  (handled # <<>> /\ caught # <<>>) => handled[1].error = caught[1].error

(* ============================== QUERY ================================== *)
\* number of events the agent run of one query delivers at most
MaxEvents == 2
\* largest input_tokens / output_tokens an agent run reports
MaxAgentTokens == 1

ToolNames == {"wikipedia_search", "wikipedia_get_page"}

\* the steps of the call that run before the try block, in order
SetupSteps == {"instructions", "model", "agent"}

\* the failure the agent runs of the queries raise, when they fail
RunFailures ==
  { [type |-> ClassNames.ConnectionError, msg |-> Messages.Refused],
    [type |-> ClassNames.ValueError, msg |-> Messages.BadValue] }

QueryInit ==
  /\ _tool_calls = <<>>
  /\ qvariant \in [Queries -> {"plain", "stream"}]
  /\ qpc = [q \in Queries |-> "idle"]
  /\ qresp = [q \in Queries |-> NoResponse]
  /\ qissued = [q \in Queries |-> <<>>]
  /\ tool_nums = [q \in Queries |-> <<>>]
  \* the other subsystems are not running
  /\ guardrails = <<>>
  /\ agentOnCancel = "cancelled"
  /\ cost_tracker = EmptyTracker
  /\ task = [t \in {0} |-> "pending"]
  /\ started = [t \in {0} |-> FALSE]
  /\ must_cancel = [t \in {0} |-> FALSE]
  /\ sched = [t \in {0} |-> "none"]
  /\ ready = <<>>
  /\ ntodo = 0
  /\ outer1 = "pending"
  /\ nfin1 = 0
  /\ outer2 = "pending"
  /\ nfin2 = 0
  /\ sup_pc = "start"
  /\ outcome = "none"
  /\ agent_steps = 0
  /\ agent_first = FALSE
  /\ exceeded = FALSE
  /\ max_retries = 0
  /\ attempt = 0
  /\ jpc = "idle"
  /\ jhist = <<>>
  /\ jwaits = <<>>
  /\ jret = NoPair
  /\ ea_pc = "start"
  /\ ea_ret = NoPair
  /\ ground_truth = <<>>
  /\ ei = 1
  /\ epc = "loop"
  /\ results = <<>>
  /\ report = None
  /\ agent_result = NoResponse
  /\ judge_result = NoJudgeResult
  /\ ehist = <<>>
  /\ inflight = {}
  /\ exception \in RunFailures
  /\ handled = <<>>
  /\ caught = <<>>
  /\ call_args = None
  /\ returned = <<>>
  /\ stream = <<>>
  /\ previous_text = <<>>
  /\ deltas = <<>>
  /\ tool_seen = <<>>
  /\ sresp = NoResponse

\* query_wikipedia lines 86-128 / query_wikipedia_stream lines 216-260:
\* reset the module-level list, resolve the instructions, construct the model
\* and the agent, and suspend in the agent run.  Nothing of this is inside
\* the try block: a failure of one of the steps leaves the call as raised.
QueryStart(q) ==
  /\ qpc[q] = "idle"
  /\ _tool_calls' = <<>>
  /\ \E fail \in SetupSteps \cup {"none"} :
       qpc' = [qpc EXCEPT ![q] = IF fail = "none" THEN "running" ELSE "raised"]
  /\ UNCHANGED <<qvariant, qresp, qissued, tool_nums>>
  /\ UNCHANGED nonQueryVars

\* the events an agent run hands to its event_stream_handler: a
\* FunctionToolCallEvent, an event of another kind, or an async stream of
\* events (anything with __aiter__)
FunctionToolCallEvent(name, args) == [kind |-> "call", tool_name |-> name, args |-> args]
OtherEvent == [kind |-> "other"]
Stream(items) == [kind |-> "stream", items |-> items]

\* the events delivered during query q; the args of a call name the query
\* and the depth of sub-streams the call is emitted at
Events(q) ==
  { FunctionToolCallEvent(n, <<q, 0>>) : n \in ToolNames } \cup
  { OtherEvent,
    Stream(<<>>),
    Stream(<< FunctionToolCallEvent("wikipedia_search", <<q, 1>>),
              OtherEvent,
              Stream(<<>>),
              Stream(<< FunctionToolCallEvent("wikipedia_get_page", <<q, 2>>) >>) >>) }

\* history: the leaf FunctionToolCallEvents of an event in the order the
\* runtime emits them
RECURSIVE Emitted(_)
RECURSIVE EmittedAll(_)
Emitted(event) ==
  IF event.kind = "call"
    THEN << [tool_name |-> event.tool_name, args |-> event.args] >>
  ELSE IF event.kind = "stream" THEN EmittedAll(event.items)
  ELSE <<>>
EmittedAll(items) ==
  IF items = <<>> THEN <<>> ELSE Emitted(Head(items)) \o EmittedAll(Tail(items))

\* track_tool_calls lines 22-38: the list the module-level name is bound to
\* after the handler has processed event, starting from calls.  A stream is
\* iterated and the handler awaited on every sub-event (lines 27-30); a
\* FunctionToolCallEvent is appended (lines 33-38); other events are ignored.
RECURSIVE track_tool_calls(_, _)
RECURSIVE TrackSubEvents(_, _)
track_tool_calls(calls, event) ==
  IF event.kind = "stream" THEN TrackSubEvents(calls, event.items)
  ELSE IF event.kind = "call"
    THEN Append(calls, [tool_name |-> event.tool_name, args |-> event.args])
  ELSE calls
TrackSubEvents_FirstOnly(calls, items) ==
  IF items = <<>> THEN calls ELSE track_tool_calls(calls, Head(items))
TrackSubEvents(calls, items) ==
  IF items = <<>> THEN calls
  ELSE TrackSubEvents(track_tool_calls(calls, Head(items)), Tail(items))

\* the event stream handler is called with an event of the run of query q:
\* calls are appended to whatever list the module-level name is bound to at
\* that moment, and each is logged with tool_num = len(_tool_calls) (line 39)
TrackToolCall(q) ==
  /\ qpc[q] = "running"
  /\ \E event \in Events(q) :
       /\ Len(qissued[q]) + Len(Emitted(event)) <= MaxEvents
       /\ _tool_calls' = track_tool_calls(_tool_calls, event)
       /\ qissued' = [qissued EXCEPT ![q] = @ \o Emitted(event)]
       /\ tool_nums' = [tool_nums EXCEPT ![q] =
                          @ \o IdSeq(Len(_tool_calls) + 1, Len(_tool_calls'))]
  /\ UNCHANGED <<qvariant, qpc, qresp>>
  /\ UNCHANGED nonQueryVars

TokenUsage_OutputIsTotal(i, u) == [input_tokens |-> i, output_tokens |-> u, total_tokens |-> u]

\* lines 180-184 / 317-321
TokenUsage(i, u) == [input_tokens |-> i, output_tokens |-> u, total_tokens |-> i + u]

\* lines 186-190 / 323-327
AnswerResponse(calls, usage) ==
  [answer |-> SearchAgentAnswer(<<>>), tool_calls |-> calls, usage |-> usage, error |-> None]

\* is a failure at the given stage of the call inside the try block?
CaughtAt(variant, stage) ==
  \/ stage = "run"
  \/ variant = "stream" /\ stage \in {"output", "usage"}

\* the agent run of query q ends.  query_wikipedia lines 124-190: a failure
\* of agent.run is classified and returned, result.usage() is outside the
\* try.  query_wikipedia_stream lines 256-371: run_stream, get_output and
\* usage() are all inside the try.
QueryFinish(q) ==
  /\ qpc[q] = "running"
  /\ \E fail \in {"none", "run", "output", "usage"} :
     \E i \in 0..MaxAgentTokens, u \in 0..MaxAgentTokens :
       /\ fail = "output" => qvariant[q] = "stream"
       /\ fail # "none" => i = 0 /\ u = 0
       /\ IF fail = "none"
            THEN /\ qresp' = [qresp EXCEPT ![q] = AnswerResponse(_tool_calls, TokenUsage(i, u))]
                 /\ qpc' = [qpc EXCEPT ![q] = "returned"]
          ELSE IF CaughtAt(qvariant[q], fail)
            THEN /\ qresp' = [qresp EXCEPT ![q] = ExceptBlockResponse(exception, _tool_calls)]
                 /\ qpc' = [qpc EXCEPT ![q] = "returned"]
          ELSE /\ qpc' = [qpc EXCEPT ![q] = "raised"]
               /\ UNCHANGED qresp
  /\ UNCHANGED <<_tool_calls, qvariant, qissued, tool_nums>>
  /\ UNCHANGED nonQueryVars

QueryNext ==
  \E q \in Queries :
    \/ QueryStart(q)
    \/ TrackToolCall(q)
    \/ QueryFinish(q)

\* a caller that runs its queries one after another: a call is made only
\* when no other call is in its agent run
QueryStartInTurn(q) ==
  /\ \A r \in Queries : qpc[r] # "running"
  /\ QueryStart(q)

QueryInTurnNext ==
  \E q \in Queries :
    \/ QueryStartInTurn(q)
    \/ TrackToolCall(q)
    \/ QueryFinish(q)

\* queries run in turn by a caller that also passes the failure to
\* handle_agent_error
ResponsesNext == QueryInTurnNext \/ HandleAgentError

(* --------------------------- claims: query ------------------------------ *)
\* C6 (as claimed): query_wikipedia and query_wikipedia_stream never raise: a
\* failure at any step of the call ends in a returned response with error set.
C6_NeverPropagatesRawFailure == \A q \in Queries : qpc[q] # "raised"

\* C10 (as claimed): when the calls on the event loop all got past their
\* setup, so that calls started before another returned are in flight together,
\* the tool_calls returned by a query are exactly the tool calls made during
\* that query, in order.
C10_ToolCallsExclusivePerQuery ==
  \A q \in Queries :
     (qpc[q] = "returned" /\ \A r \in Queries : qpc[r] # "raised")
        => qresp[q].tool_calls = qissued[q]

\* C11: for queries run one after another, the module-level list during a
\* run and the tool_calls of the response returned (with an answer or with an
\* error) are exactly the leaf FunctionToolCallEvents emitted during that
\* query so far, each once and in emission order whatever their nesting in
\* sub-streams, with no call of an earlier query, and the calls are numbered
\* 1, 2, 3, ... in arrival order.
C11_ToolCallsAreTheEmittedLeaves ==
  \A q \in Queries :
     /\ qpc[q] = "running" => _tool_calls = qissued[q]
     /\ qpc[q] = "returned" => qresp[q].tool_calls = qissued[q]
     /\ tool_nums[q] = IdSeq(1, Len(qissued[q]))

\* the second of two queries run in turn returned two calls emitted in nested
\* sub-streams, after the first query had recorded calls of its own
C11_Witness ==
  /\ qpc[1] = "returned" /\ qpc[2] = "returned"
  /\ Len(qresp[1].tool_calls) = 2
  /\ Len(qresp[2].tool_calls) = 2
  /\ qresp[2].tool_calls[1].args = <<2, 1>>
  /\ qresp[2].tool_calls[2].args = <<2, 2>>
  /\ _tool_calls = qresp[2].tool_calls
  /\ tool_nums[2] = <<1, 2>>

\* C15: every WikipediaAgentResponse returned by query_wikipedia,
\* query_wikipedia_stream or handle_agent_error has exactly one of answer and
\* error non-null.
C15_ExactlyOneOfAnswerAndError ==
  \A r \in { qresp[q] : q \in { x \in Queries : qpc[x] = "returned" } }
           \cup { handled[i] : i \in DOMAIN handled } :
     (r.answer = None) <=> (r.error # None)

\* one query returned an answer, the other, of the streaming variant, an
\* error, and handle_agent_error returned a response too
C15_Witness ==
  /\ qpc[1] = "returned" /\ qresp[1].answer # None /\ qresp[1].error = None
  /\ qpc[2] = "returned" /\ qvariant[2] = "stream"
  /\ qresp[2].answer = None /\ qresp[2].error.error_type = ErrorTypes.Network
  /\ handled # <<>> /\ handled[1].answer = None /\ handled[1].error.error_type = ErrorTypes.Network

\* config.py lines 43-44
MIN_SEARCH_CALLS == 3
MIN_GET_PAGE_CALLS == 2

\* the number of recorded calls of a tool
CallsOf(calls, name) == Cardinality({ k \in DOMAIN calls : calls[k].tool_name = name })

\* C24 (as claimed): a run of query_wikipedia that returns an answer has
\* recorded at least 3 wikipedia_search calls and at least 2
\* wikipedia_get_page calls.
C24_AnswerHasMinimumToolCalls ==
  \A q \in Queries :
    (qpc[q] = "returned" /\ qresp[q].answer # None) =>
      /\ CallsOf(qresp[q].tool_calls, "wikipedia_search") >= MIN_SEARCH_CALLS
      /\ CallsOf(qresp[q].tool_calls, "wikipedia_get_page") >= MIN_GET_PAGE_CALLS

(* ============================ EVALUATION =============================== *)
\* largest number of items in the ground-truth list
MaxItems == 3

\* an item of the ground-truth list either has its "question" key or not;
\* its expected_sources are a list of page titles
GroundTruthItems ==
  { [has_question |-> b, expected_sources |-> << "A" >>] : b \in BOOLEAN }

\* the responses query_wikipedia returns to the harness: an answer naming
\* the sources used, with its token usage, or the error response of its
\* except block
EvalAgentResults ==
  { [answer |-> SearchAgentAnswer(srcs), tool_calls |-> <<>>,
     usage |-> TokenUsage(1, Len(srcs)), error |-> None] :
      srcs \in { <<>>, << "A" >>, << "B", "A" >> } }
  \cup { ExceptBlockResponse(e, <<>>) : e \in RunFailures }

\* what evaluate_answer returns to the harness: an evaluation with its
\* token usage, or the zero evaluation of a judge whose attempts all failed.
\* Scores are in twelfths: 12 stands for 1.0.
EvalJudgeResults ==
  { [evaluation |-> [overall_score |-> 12], usage |-> TokenUsage(2, 1)],
    [evaluation |-> [overall_score |-> 0], usage |-> TokenUsage(0, 0)] }

calculate_hit_rate_ShareFound(expected_sources, actual_sources) ==
  IF expected_sources = <<>> THEN 0
  ELSE (12 * Cardinality({ j \in DOMAIN expected_sources :
                             \E i \in DOMAIN actual_sources :
                               actual_sources[i] = expected_sources[j] }))
         \div Len(expected_sources)

\* calculate_hit_rate: 1.0 if an expected source is among the actual ones
calculate_hit_rate(expected_sources, actual_sources) ==
  IF \E i \in DOMAIN actual_sources, j \in DOMAIN expected_sources :
        actual_sources[i] = expected_sources[j]
    THEN 12 ELSE 0

calculate_mrr_LastMatch(expected_sources, actual_sources) ==
  LET ranks == { i \in DOMAIN actual_sources :
                   \E j \in DOMAIN expected_sources : actual_sources[i] = expected_sources[j] }
  IN IF ranks = {} THEN 0
     ELSE 12 \div (CHOOSE i \in ranks : \A k \in ranks : i >= k)

\* calculate_mrr: the reciprocal of the rank of the first actual source that
\* is expected, 0.0 without one
calculate_mrr(expected_sources, actual_sources) ==
  LET ranks == { i \in DOMAIN actual_sources :
                   \E j \in DOMAIN expected_sources : actual_sources[i] = expected_sources[j] }
  IN IF ranks = {} THEN 0
     ELSE 12 \div (CHOOSE i \in ranks : \A k \in ranks : i <= k)

\* the weights of the combined score and the divisor of the token count
ScoreAlpha2 == 4
ScoreBeta2 == 1
ScoreGamma2 == 3
TokenDivisor == 1000

calculate_combined_score_TokensRewarded(hit_rate, judge_score, num_tokens) ==
  TokenDivisor * (ScoreAlpha2 * judge_score + ScoreBeta2 * hit_rate)
    + 12 * ScoreGamma2 * num_tokens

\* calculate_combined_score: alpha * judge_score + beta * hit_rate
\* - gamma * num_tokens / divisor, in units of 1/24000 (the weights are
\* doubled, the scores are in twelfths)
calculate_combined_score(hit_rate, judge_score, num_tokens) ==
  TokenDivisor * (ScoreAlpha2 * judge_score + ScoreBeta2 * hit_rate)
    - 12 * ScoreGamma2 * num_tokens

\* lines 20-24
FALLBACK_HIT_RATE == 0
FALLBACK_MRR == 0
FALLBACK_JUDGE_SCORE == 0
FALLBACK_NUM_TOKENS == 0
FALLBACK_COMBINED_SCORE == 0

FallbackRecord_CountsTokens(i) ==
  [question |-> i, hit_rate |-> FALLBACK_HIT_RATE, mrr |-> FALLBACK_MRR,
   judge_score |-> FALLBACK_JUDGE_SCORE, num_tokens |-> 1,
   combined_score |-> FALLBACK_COMBINED_SCORE]

\* lines 120-128: the record of an item whose processing failed
FallbackRecord(i) ==
  [question |-> i, hit_rate |-> FALLBACK_HIT_RATE, mrr |-> FALLBACK_MRR,
   judge_score |-> FALLBACK_JUDGE_SCORE, num_tokens |-> FALLBACK_NUM_TOKENS,
   combined_score |-> FALLBACK_COMBINED_SCORE]

RealRecord_ZeroJudgeIsFailure(i) ==
  LET expected_sources == ground_truth[i].expected_sources
      actual_sources == agent_result.answer.sources_used
      hit_rate == calculate_hit_rate(expected_sources, actual_sources)
      judge_score == judge_result.evaluation.overall_score
      total_tokens == agent_result.usage.total_tokens + judge_result.usage.total_tokens
  IN IF judge_score = 0 THEN FallbackRecord(i)
     ELSE [question |-> i, hit_rate |-> hit_rate,
           mrr |-> calculate_mrr(expected_sources, actual_sources),
           judge_score |-> judge_score, num_tokens |-> total_tokens,
           combined_score |-> calculate_combined_score(hit_rate, judge_score, total_tokens)]

\* lines 75-108: the record of item i from the response of the agent and
\* the result of the judge
RealRecord(i) ==
  LET expected_sources == ground_truth[i].expected_sources
      actual_sources == agent_result.answer.sources_used
      hit_rate == calculate_hit_rate(expected_sources, actual_sources)
      judge_score == judge_result.evaluation.overall_score
      total_tokens == agent_result.usage.total_tokens + judge_result.usage.total_tokens
  IN [question |-> i, hit_rate |-> hit_rate,
      mrr |-> calculate_mrr(expected_sources, actual_sources),
      judge_score |-> judge_score, num_tokens |-> total_tokens,
      combined_score |-> calculate_combined_score(hit_rate, judge_score, total_tokens)]

\* an awaited call: the invocation is in flight from the call until the
\* await returns or raises
StartInvocation(callee) == inflight \cup { <<callee, ei>> }

EndInvocation_NotAwaited(callee) == inflight

EndInvocation(callee) == inflight \ { <<callee, ei>> }

\* history: the entry of an item at its agent call
HistEntry(how, response) ==
  [agent_outcome |-> how, agent_result |-> response,
   judge_outcome |-> "none", judge_result |-> NoJudgeResult, failed |-> "none"]

EvalInit ==
  /\ ground_truth \in SeqsUpTo(GroundTruthItems, MaxItems)
  /\ ei = 1
  /\ epc = "loop"
  /\ results = <<>>
  /\ report = None
  /\ agent_result = NoResponse
  /\ judge_result = NoJudgeResult
  /\ ehist = <<>>
  /\ inflight = {}
  /\ exception = NoException
  /\ handled = <<>>
  /\ caught = <<>>
  /\ call_args = None
  /\ returned = <<>>
  /\ stream = <<>>
  /\ previous_text = <<>>
  /\ deltas = <<>>
  /\ tool_seen = <<>>
  /\ sresp = NoResponse
  \* the other subsystems are not running
  /\ guardrails = <<>>
  /\ agentOnCancel = "cancelled"
  /\ cost_tracker = EmptyTracker
  /\ task = [t \in {0} |-> "pending"]
  /\ started = [t \in {0} |-> FALSE]
  /\ must_cancel = [t \in {0} |-> FALSE]
  /\ sched = [t \in {0} |-> "none"]
  /\ ready = <<>>
  /\ ntodo = 0
  /\ outer1 = "pending"
  /\ nfin1 = 0
  /\ outer2 = "pending"
  /\ nfin2 = 0
  /\ sup_pc = "start"
  /\ outcome = "none"
  /\ agent_steps = 0
  /\ agent_first = FALSE
  /\ exceeded = FALSE
  /\ max_retries = 0
  /\ attempt = 0
  /\ jpc = "idle"
  /\ jhist = <<>>
  /\ jwaits = <<>>
  /\ jret = NoPair
  /\ ea_pc = "start"
  /\ ea_ret = NoPair
  /\ _tool_calls = <<>>
  /\ qvariant = [q \in Queries |-> "plain"]
  /\ qpc = [q \in Queries |-> "idle"]
  /\ qresp = [q \in Queries |-> NoResponse]
  /\ qissued = [q \in Queries |-> <<>>]
  /\ tool_nums = [q \in Queries |-> <<>>]

\* is the statement at the given stage of the loop body inside the try block
\* of lines 72-129?
InsideTry(stage) == stage \in {"agent", "scores", "judge", "combine"}

\* a failure at the given stage of item ei: the except branch appends the
\* fallback record and the loop goes on, or the failure leaves evaluate_agent
EvalFailure(stage) ==
  IF InsideTry(stage)
    THEN /\ results' = Append(results, FallbackRecord(ei))
         /\ ei' = ei + 1
         /\ epc' = "loop"
    ELSE /\ epc' = "raised"
         /\ UNCHANGED <<results, ei>>

\* lines 64-70: the loop takes the next item and reads its fields, or is
\* exhausted and goes on to line 131
EvalLoopHead ==
  /\ epc = "loop"
  /\ IF ei > Len(ground_truth)
       THEN epc' = "save" /\ UNCHANGED <<results, ei>>
     ELSE IF ~ground_truth[ei].has_question
       THEN EvalFailure("fields")
     ELSE epc' = "agent" /\ UNCHANGED <<results, ei>>
  /\ UNCHANGED <<ground_truth, report, agent_result, judge_result, ehist, inflight>>
  /\ UNCHANGED nonEvalVars

\* line 73: query_wikipedia is called and evaluate_agent waits for it
EvalAgentCall ==
  /\ epc = "agent"
  /\ epc' = "agent_await"
  /\ inflight' = StartInvocation("agent")
  /\ UNCHANGED <<ground_truth, ei, results, report, agent_result, judge_result, ehist>>
  /\ UNCHANGED nonEvalVars

\* lines 73-77: the end of the agent call and the source scores.  The call
\* raises, or returns a response; a response with error set has answer None,
\* so that line 75 raises AttributeError; the source scores of an answer are
\* computed, or fail.
EvalAgentReturn ==
  /\ epc = "agent_await"
  /\ inflight' = EndInvocation("agent")
  /\ \/ /\ EvalFailure("agent")
        /\ ehist' = Append(ehist, [HistEntry("raised", NoResponse) EXCEPT !.failed = "agent"])
        /\ UNCHANGED agent_result
     \/ \E response \in EvalAgentResults :
          /\ agent_result' = response
          /\ IF response.answer = None
               THEN /\ EvalFailure("scores")
                    /\ ehist' = Append(ehist, [HistEntry("error", response)
                                                 EXCEPT !.failed = "scores"])
               ELSE \E scores_ok \in BOOLEAN :
                      IF scores_ok
                        THEN /\ epc' = "judge"
                             /\ ehist' = Append(ehist, HistEntry("answer", response))
                             /\ UNCHANGED <<results, ei>>
                        ELSE /\ EvalFailure("scores")
                             /\ ehist' = Append(ehist, [HistEntry("answer", response)
                                                          EXCEPT !.failed = "scores"])
  /\ UNCHANGED <<ground_truth, report, judge_result>>
  /\ UNCHANGED nonEvalVars

\* line 79: evaluate_answer is called and evaluate_agent waits for it
EvalJudgeCall ==
  /\ epc = "judge"
  /\ epc' = "judge_await"
  /\ inflight' = StartInvocation("judge")
  /\ UNCHANGED <<ground_truth, ei, results, report, agent_result, judge_result, ehist>>
  /\ UNCHANGED nonEvalVars

\* lines 79-85: the end of the judge call
EvalJudgeReturn ==
  /\ epc = "judge_await"
  /\ inflight' = EndInvocation("judge")
  /\ \/ /\ EvalFailure("judge")
        /\ ehist' = [ehist EXCEPT ![ei].judge_outcome = "raised", ![ei].failed = "judge"]
        /\ UNCHANGED judge_result
     \/ \E judged \in EvalJudgeResults :
          /\ judge_result' = judged
          /\ ehist' = [ehist EXCEPT ![ei].judge_outcome = "ok", ![ei].judge_result = judged]
          /\ epc' = "combine"
          /\ UNCHANGED <<results, ei>>
  /\ UNCHANGED <<ground_truth, report, agent_result>>
  /\ UNCHANGED nonEvalVars

\* lines 87-115: token sum, combined score and the record
EvalAppend ==
  /\ epc = "combine"
  /\ \E r \in {"raises", "ok"} :
       IF r = "ok"
         THEN /\ results' = Append(results, RealRecord(ei))
              /\ ei' = ei + 1
              /\ epc' = "loop"
              /\ UNCHANGED ehist
         ELSE /\ EvalFailure("combine")
              /\ ehist' = [ehist EXCEPT ![ei].failed = "combine"]
  /\ UNCHANGED <<ground_truth, report, agent_result, judge_result, inflight>>
  /\ UNCHANGED nonEvalVars

(* save_results.py *)
SortedAscending(rows) ==
  \A i, j \in DOMAIN rows : i < j => rows[i].combined_score <= rows[j].combined_score

\* line 73, ascending=False: the rows are in non-increasing combined_score
SortedByCombinedScore(rows) ==
  \A i, j \in DOMAIN rows : i < j => rows[i].combined_score >= rows[j].combined_score

\* the rearrangements of a list of records
Rearrangements(rows) ==
  { [i \in DOMAIN rows |-> rows[f[i]]] :
      f \in { g \in [DOMAIN rows -> DOMAIN rows] :
                \A i, j \in DOMAIN rows : g[i] = g[j] => i = j } }

\* line 73, df.sort_values("combined_score", ascending=False): the default
\* sort is not stable, so that rows of equal combined_score come in any order
sort_values(rows) == { sorted \in Rearrangements(rows) : SortedByCombinedScore(sorted) }

\* line 86, df["num_tokens"].sum()
RECURSIVE SumNumTokens(_)
SumNumTokens(rows) ==
  IF rows = <<>> THEN 0 ELSE rows[1].num_tokens + SumNumTokens(Tail(rows))

\* line 89, df["combined_score"].max()
MaxCombinedScore(rows) ==
  CHOOSE x \in { rows[i].combined_score : i \in DOMAIN rows } :
    \A i \in DOMAIN rows : rows[i].combined_score <= x

\* lines 77-89: the summary; the data frame of an empty list has no columns
\* and its summary is the empty dict (the averages are left out)
Summary(rows) ==
  IF rows = <<>> THEN <<>>
  ELSE [total_tokens |-> SumNumTokens(rows),
        best_combined_score |-> MaxCombinedScore(rows)]

\* lines 68-96: the report save_evaluation_results writes for a sorted list
JsonData(sorted) ==
  [num_questions |-> Len(sorted), summary |-> Summary(sorted), results |-> sorted]

\* evaluate.py lines 131-143: save_evaluation_results
EvalSave ==
  /\ epc = "save"
  /\ \E sorted \in sort_values(results) : report' = JsonData(sorted)
  /\ epc' = "done"
  /\ UNCHANGED <<ground_truth, ei, results, agent_result, judge_result, ehist, inflight>>
  /\ UNCHANGED nonEvalVars

EvalNext ==
  \/ EvalLoopHead
  \/ EvalAgentCall
  \/ EvalAgentReturn
  \/ EvalJudgeCall
  \/ EvalJudgeReturn
  \/ EvalAppend
  \/ EvalSave

(* ------------------------ claims: evaluation ---------------------------- *)
\* C7 (as claimed): whatever fails while one item is processed, reading its
\* fields included, evaluate_agent does not stop: it appends one record per
\* item and reaches persistence with as many records as items.
C7_OneRecordPerItem ==
  /\ epc # "raised"
  /\ epc \in {"save", "done"} => Len(results) = Len(ground_truth)

\* C20: an item whose agent call fails, by raising or by returning a response
\* with error set and answer None, gets a record with hit_rate, mrr,
\* judge_score, num_tokens and combined_score all zero, and the record of
\* every item processed without failure holds the scores computed from its
\* own agent response and judge result, whatever happened to other items.
C20_FailedAgentCallGetsZeroRecord ==
  /\ Len(results) = ei - 1
  /\ \A i \in DOMAIN results :
       LET h == ehist[i]
           r == results[i]
       IN /\ r.question = i
          /\ h.agent_outcome \in {"raised", "error"} =>
                /\ r.hit_rate = 0 /\ r.mrr = 0 /\ r.judge_score = 0
                /\ r.num_tokens = 0 /\ r.combined_score = 0
          /\ h.failed = "none" =>
                LET expected == ground_truth[i].expected_sources
                    actual == h.agent_result.answer.sources_used
                IN /\ r.hit_rate = calculate_hit_rate(expected, actual)
                   /\ r.mrr = calculate_mrr(expected, actual)
                   /\ r.judge_score = h.judge_result.evaluation.overall_score
                   /\ r.num_tokens = h.agent_result.usage.total_tokens
                                       + h.judge_result.usage.total_tokens
                   /\ r.combined_score =
                        calculate_combined_score(r.hit_rate, r.judge_score, r.num_tokens)

\* of three items the agent call of the second raised and that of the third
\* returned an error response; both have zero records, and the first has
\* the scores of its answer, which names the expected source second
C20_Witness ==
  /\ epc = "done"
  /\ Len(results) = 3
  /\ ehist[1].failed = "none"
  /\ results[1].hit_rate = 12 /\ results[1].mrr = 6 /\ results[1].judge_score = 12
  /\ results[1].num_tokens = 6 /\ results[1].combined_score = 59784
  /\ ehist[2].agent_outcome = "raised" /\ results[2] = FallbackRecord(2)
  /\ ehist[3].agent_outcome = "error" /\ results[3] = FallbackRecord(3)

\* C30: when the agent call of an item succeeds and the judge returns its
\* zero-score fallback with zero usage (and nothing else fails for the item),
\* the item's record is not the all-zero fallback record: it has the hit_rate
\* and mrr of the answer's sources, judge_score 0.0 and the agent's
\* total_tokens alone as num_tokens.
C30_JudgeFallbackKeepsRealRecord ==
  \A i \in DOMAIN results :
    LET h == ehist[i]
        r == results[i]
    IN (/\ h.agent_outcome = "answer" /\ h.judge_outcome = "ok" /\ h.failed = "none"
        /\ h.judge_result.evaluation.overall_score = 0
        /\ h.judge_result.usage.total_tokens = 0) =>
         LET expected == ground_truth[i].expected_sources
             actual == h.agent_result.answer.sources_used
         IN /\ r.hit_rate = calculate_hit_rate(expected, actual)
            /\ r.mrr = calculate_mrr(expected, actual)
            /\ r.judge_score = 0
            /\ r.num_tokens = h.agent_result.usage.total_tokens
            /\ r.num_tokens > 0
            /\ r # FallbackRecord(i)

\* the answer of the first item named the expected source second, its judge
\* fell back, and its record has hit_rate 1.0, mrr 0.5, judge_score 0.0 and
\* the agent's three tokens
C30_Witness ==
  /\ Len(results) >= 1
  /\ ehist[1].agent_outcome = "answer" /\ ehist[1].judge_outcome = "ok"
  /\ ehist[1].failed = "none"
  /\ ehist[1].judge_result = [evaluation |-> [overall_score |-> 0], usage |-> TokenUsage(0, 0)]
  /\ ehist[1].agent_result.usage.total_tokens = 3
  /\ results[1] = [question |-> 1, hit_rate |-> 12, mrr |-> 6, judge_score |-> 0,
                   num_tokens |-> 3, combined_score |-> 11892]

\* C21: evaluate_agent processes the items one at a time in dataset order:
\* at most one agent or judge invocation is in flight, it belongs to the item
\* right after the last appended record, so that the agent call of item i+1
\* starts only after the record of item i was appended, and the records are
\* in dataset order.
C21_ItemsProcessedOneAtATime ==
  /\ Cardinality(inflight) <= 1
  /\ \A inv \in inflight : inv[2] = Len(results) + 1 /\ inv[2] = ei
  /\ Len(ehist) <= Len(results) + 1
  /\ \A i \in DOMAIN results : results[i].question = i

\* the judge of the second item is in flight, after the first item's agent
\* call raised and its fallback record was appended
C21_Witness ==
  /\ inflight = { <<"judge", 2>> }
  /\ epc = "judge_await"
  /\ Len(results) = 1 /\ results[1] = FallbackRecord(1)
  /\ ehist[1].agent_outcome = "raised"
  /\ Len(ehist) = 2

\* C22: in the written report, results is ordered by combined_score
\* non-increasing and is a rearrangement of the appended records (none added,
\* dropped or altered, num_questions is their number), and
\* summary.best_combined_score is the largest combined_score of the records,
\* that of the first result.
C22_ReportIsSortedPermutation ==
  report # None =>
    /\ \A i \in 1..(Len(report.results) - 1) :
          report.results[i].combined_score >= report.results[i + 1].combined_score
    /\ Len(report.results) = Len(results)
    /\ \A r \in { results[i] : i \in DOMAIN results } :
          Cardinality({ i \in DOMAIN results : results[i] = r })
            = Cardinality({ i \in DOMAIN report.results : report.results[i] = r })
    /\ report.num_questions = Len(results)
    /\ results # <<>> =>
          /\ report.summary.best_combined_score = report.results[1].combined_score
          /\ \A i \in DOMAIN results :
                results[i].combined_score <= report.summary.best_combined_score

\* three records were appended with the best one last, and the report lists
\* it first
C22_Witness ==
  /\ report # None
  /\ Len(results) = 3
  /\ results[1].combined_score < results[2].combined_score
  /\ results[2].combined_score < results[3].combined_score
  /\ report.results = << results[3], results[2], results[1] >>
  /\ report.summary.best_combined_score = results[3].combined_score

(* =========================== FUNCTION CALLS ============================ *)
(* Functions that keep no state are called with arguments drawn at the
   start, and what they return is recorded. *)

\* the usage a run of the agent reports (result.usage()) and the outcome of
\* the judge's last run
UsageArgs ==
  { [fn |-> "usage", input_tokens |-> i, output_tokens |-> u, judge_run |-> run] :
      i \in 0..MaxAgentTokens, u \in 0..MaxAgentTokens, run \in JudgeRuns }

\* largest number of sources an answer names
MaxSources == 3

\* page titles
Titles == {"A", "B", "X"}

\* the expected sources of an item and the sources an answer names
MetricArgs ==
  { [fn |-> "source_metrics", expected_sources |-> e, actual_sources |-> a] :
      e \in { <<>>, << "A" >>, << "A", "B" >> }, a \in SeqsUpTo(Titles, MaxSources) }

\* largest token count of a record whose score is computed
MaxScoreTokens == 2

\* the arguments of calculate_combined_score: a hit rate, a judge score of
\* 0.0, 0.5 or 1.0 and a token count
ScoreTriples ==
  { [hit_rate |-> h, judge_score |-> j, num_tokens |-> t] :
      h \in {0, 12}, j \in {0, 6, 12}, t \in 0..MaxScoreTokens }

\* two records to score
ScoreArgs ==
  { [fn |-> "combined_score", first |-> a, second |-> b] :
      a \in ScoreTriples, b \in ScoreTriples }

CallArgs == UsageArgs \cup MetricArgs \cup ScoreArgs

CallInit ==
  /\ call_args \in CallArgs
  /\ returned = <<>>
  /\ stream = <<>>
  /\ previous_text = <<>>
  /\ deltas = <<>>
  /\ tool_seen = <<>>
  /\ sresp = NoResponse
  \* the other subsystems are not running
  /\ exception = NoException
  /\ handled = <<>>
  /\ caught = <<>>
  /\ guardrails = <<>>
  /\ agentOnCancel = "cancelled"
  /\ cost_tracker = EmptyTracker
  /\ task = [t \in {0} |-> "pending"]
  /\ started = [t \in {0} |-> FALSE]
  /\ must_cancel = [t \in {0} |-> FALSE]
  /\ sched = [t \in {0} |-> "none"]
  /\ ready = <<>>
  /\ ntodo = 0
  /\ outer1 = "pending"
  /\ nfin1 = 0
  /\ outer2 = "pending"
  /\ nfin2 = 0
  /\ sup_pc = "start"
  /\ outcome = "none"
  /\ agent_steps = 0
  /\ agent_first = FALSE
  /\ exceeded = FALSE
  /\ max_retries = 0
  /\ attempt = 0
  /\ jpc = "idle"
  /\ jhist = <<>>
  /\ jwaits = <<>>
  /\ jret = NoPair
  /\ ea_pc = "start"
  /\ ea_ret = NoPair
  /\ ground_truth = <<>>
  /\ ei = 1
  /\ epc = "loop"
  /\ results = <<>>
  /\ report = None
  /\ agent_result = NoResponse
  /\ judge_result = NoJudgeResult
  /\ ehist = <<>>
  /\ inflight = {}
  /\ _tool_calls = <<>>
  /\ qvariant = [q \in Queries |-> "plain"]
  /\ qpc = [q \in Queries |-> "idle"]
  /\ qresp = [q \in Queries |-> NoResponse]
  /\ qissued = [q \in Queries |-> <<>>]
  /\ tool_nums = [q \in Queries |-> <<>>]

Returned(by, value) == Append(returned, [by |-> by, value |-> value])

HasReturned(by) == \E k \in DOMAIN returned : returned[k].by = by

\* wikipagent.py lines 176-184 / 313-321: the usage in the response of
\* query_wikipedia and of query_wikipedia_stream
QueryReturnsUsage ==
  /\ call_args.fn = "usage"
  /\ \E by \in {"query_wikipedia", "query_wikipedia_stream"} :
       /\ ~HasReturned(by)
       /\ returned' = Returned(by, TokenUsage(call_args.input_tokens, call_args.output_tokens))
  /\ UNCHANGED call_args
  /\ UNCHANGED nonCallVars

\* judge.py lines 44-70: the usage the judge returns, of its successful run
\* or of the fallback after its last run failed
JudgeReturnsUsage ==
  /\ call_args.fn = "usage"
  /\ ~HasReturned("evaluate_answer")
  /\ returned' = Returned("evaluate_answer",
                          IF call_args.judge_run.ok THEN UsageDict(call_args.judge_run)
                          ELSE FallbackPair.usage)
  /\ UNCHANGED call_args
  /\ UNCHANGED nonCallVars

\* evaluate.py line 76
CallHitRate ==
  /\ call_args.fn = "source_metrics"
  /\ ~HasReturned("calculate_hit_rate")
  /\ returned' = Returned("calculate_hit_rate",
                          calculate_hit_rate(call_args.expected_sources, call_args.actual_sources))
  /\ UNCHANGED call_args
  /\ UNCHANGED nonCallVars

\* evaluate.py line 77
CallMrr ==
  /\ call_args.fn = "source_metrics"
  /\ ~HasReturned("calculate_mrr")
  /\ returned' = Returned("calculate_mrr",
                          calculate_mrr(call_args.expected_sources, call_args.actual_sources))
  /\ UNCHANGED call_args
  /\ UNCHANGED nonCallVars

\* evaluate.py lines 93-97, for the first and for the second record
CallCombinedScore ==
  /\ call_args.fn = "combined_score"
  /\ \E which \in {"first", "second"} :
       LET a == call_args[which]
       IN /\ ~HasReturned(which)
          /\ returned' = Returned(which, calculate_combined_score(
                                            a.hit_rate, a.judge_score, a.num_tokens))
  /\ UNCHANGED call_args
  /\ UNCHANGED nonCallVars

CallNext ==
  \/ QueryReturnsUsage
  \/ JudgeReturnsUsage
  \/ CallHitRate
  \/ CallMrr
  \/ CallCombinedScore

(* ----------------------- claims: function calls ------------------------- *)
\* C23: every token usage returned by query_wikipedia, by
\* query_wikipedia_stream and by the judge, successful or fallback, has
\* input_tokens >= 0, output_tokens >= 0 and total_tokens = input_tokens +
\* output_tokens.
C23_UsageTotalIsInputPlusOutput ==
  \A k \in DOMAIN returned :
    returned[k].by \in {"query_wikipedia", "query_wikipedia_stream", "evaluate_answer"} =>
      LET usage == returned[k].value
      IN /\ usage.input_tokens >= 0
         /\ usage.output_tokens >= 0
         /\ usage.total_tokens = usage.input_tokens + usage.output_tokens

\* both variants of the query returned the usage of a run with one input and
\* one output token, and the judge returned the zero usage of its fallback
C23_Witness ==
  /\ call_args.fn = "usage" /\ ~call_args.judge_run.ok
  /\ \E k \in DOMAIN returned :
       /\ returned[k].by = "query_wikipedia_stream"
       /\ returned[k].value = [input_tokens |-> 1, output_tokens |-> 1, total_tokens |-> 2]
  /\ \E k \in DOMAIN returned :
       /\ returned[k].by = "query_wikipedia"
       /\ returned[k].value.total_tokens = 2
  /\ \E k \in DOMAIN returned :
       /\ returned[k].by = "evaluate_answer"
       /\ returned[k].value = [input_tokens |-> 0, output_tokens |-> 0, total_tokens |-> 0]

\* the members of a list
Members(list) == { list[i] : i \in DOMAIN list }

\* C25: hit_rate returns 1.0 exactly when an element of actual is a member of
\* expected and 0.0 otherwise, so 0.0 when either is empty, and no other
\* value (12 stands for 1.0).
C25_HitRateIsOneIffSourcesMeet ==
  \A k \in DOMAIN returned :
    returned[k].by = "calculate_hit_rate" =>
      LET expected == Members(call_args.expected_sources)
          actual == Members(call_args.actual_sources)
      IN /\ returned[k].value \in {0, 12}
         /\ returned[k].value = 12 <=> expected \cap actual # {}
         /\ (expected = {} \/ actual = {}) => returned[k].value = 0

\* hit_rate({"A","B"}, ["X","A"]) has returned 1.0
C25_Witness ==
  /\ call_args.fn = "source_metrics"
  /\ call_args.expected_sources = << "A", "B" >>
  /\ call_args.actual_sources = << "X", "A" >>
  /\ \E k \in DOMAIN returned :
       returned[k].by = "calculate_hit_rate" /\ returned[k].value = 12

\* C26: mrr returns 1/r for the position r of the first element of actual
\* that is a member of expected, whatever matches follow it, and 0.0 when no
\* element of actual is in expected (12 stands for 1.0).
C26_MrrIsReciprocalOfFirstMatch ==
  \A k \in DOMAIN returned :
    returned[k].by = "calculate_mrr" =>
      LET expected == Members(call_args.expected_sources)
          actual == call_args.actual_sources
      IN IF \A i \in DOMAIN actual : actual[i] \notin expected
           THEN returned[k].value = 0
           ELSE \E r \in DOMAIN actual :
                  /\ actual[r] \in expected
                  /\ \A i \in 1..(r - 1) : actual[i] \notin expected
                  /\ returned[k].value * r = 12

\* mrr({"A","B"}, ["X","A","B"]) has returned 0.5: the first match is second
\* and another one follows it
C26_Witness ==
  /\ call_args.fn = "source_metrics"
  /\ call_args.expected_sources = << "A", "B" >>
  /\ call_args.actual_sources = << "X", "A", "B" >>
  /\ \E k \in DOMAIN returned :
       returned[k].by = "calculate_mrr" /\ returned[k].value = 6

\* what the function has returned under the given name
ValueReturned(by) == returned[CHOOSE k \in DOMAIN returned : returned[k].by = by].value

\* C27: with the default weights and the other two arguments equal, the
\* combined score is strictly larger for the larger judge_score, strictly
\* larger for the larger hit_rate and strictly smaller for the larger
\* num_tokens.
C27_CombinedScoreIsMonotonic ==
  (call_args.fn = "combined_score" /\ HasReturned("first") /\ HasReturned("second")) =>
    LET a == call_args.first
        b == call_args.second
        va == ValueReturned("first")
        vb == ValueReturned("second")
    IN /\ (a.judge_score < b.judge_score /\ a.hit_rate = b.hit_rate
             /\ a.num_tokens = b.num_tokens) => va < vb
       /\ (a.hit_rate < b.hit_rate /\ a.judge_score = b.judge_score
             /\ a.num_tokens = b.num_tokens) => va < vb
       /\ (a.num_tokens < b.num_tokens /\ a.judge_score = b.judge_score
             /\ a.hit_rate = b.hit_rate) => va > vb

\* two records with hit rate 1.0 and judge score 1.0 were scored, the second
\* with one token more, and it has the smaller score
C27_Witness ==
  /\ call_args.fn = "combined_score"
  /\ call_args.first = [hit_rate |-> 12, judge_score |-> 12, num_tokens |-> 1]
  /\ call_args.second = [hit_rate |-> 12, judge_score |-> 12, num_tokens |-> 2]
  /\ HasReturned("first") /\ HasReturned("second")
  /\ ValueReturned("first") = 59964
  /\ ValueReturned("second") = 59928

(* ============================= STREAMING =============================== *)
(* query_wikipedia_stream, wikipagent.py lines 252-327 *)
\* largest number of responses a stream yields
MaxStreamItems == 3

\* the JSON text of a structured output: {"answer":"x"}
txt_answer ==
  <<"{", "\"", "a", "n", "s", "w", "e", "r", "\"", ":", "\"", "x", "\"", "}">>

\* lines 291-296: the field names that mark structured output
OutputFieldNames ==
  [answer |-> <<"a", "n", "s", "w", "e", "r">>,
   confidence |-> <<"c", "o", "n", "f", "i", "d", "e", "n", "c", "e">>,
   sources_used |-> <<"s", "o", "u", "r", "c", "e", "s", "_", "u", "s", "e", "d">>,
   reasoning |-> <<"r", "e", "a", "s", "o", "n", "i", "n", "g">>]

OutputFields == { OutputFieldNames.answer, OutputFieldNames.confidence, OutputFieldNames.sources_used, OutputFieldNames.reasoning }

\* the args of a tool-call part: a JSON string, complete or not, or a dict
StrArgs(text) == [type |-> "str", text |-> text]
DictArgs(pairs) == [type |-> "dict", pairs |-> pairs]

\* the entries "answer": "x" and "confidence": 1 of a dict
pair_answer == [key |-> OutputFieldNames.answer, value |-> <<"\"", "x", "\"">>]
pair_confidence == [key |-> OutputFieldNames.confidence, value |-> <<"1">>]

\* line 285, json.dumps(args): {"k": v, "k": v}
RECURSIVE JoinPairs(_)
JoinPairs(pairs) ==
  IF pairs = <<>> THEN <<>>
  ELSE LET text == <<"\"">> \o pairs[1].key \o <<"\"", ":", " ">> \o pairs[1].value
       IN IF Len(pairs) = 1 THEN text
          ELSE text \o <<",", " ">> \o JoinPairs(Tail(pairs))

json_dumps(pairs) == <<"{">> \o JoinPairs(pairs) \o <<"}">>

\* the parts of a response: text, which has no tool_name, and tool calls
TextPart == [kind |-> "text"]
ToolCallPart(tool_name, args) == [kind |-> "tool-call", tool_name |-> tool_name, args |-> args]
SearchPart == ToolCallPart("wikipedia_search", StrArgs(<<"q">>))

\* line 283, `if tool_name and args`
Truthy(args) == IF args.type = "str" THEN args.text # <<>> ELSE args.pairs # <<>>

\* lines 264-308: one part of a response
process_part(st, part) ==
  IF part.kind # "tool-call" THEN st
  ELSE IF part.tool_name \in ToolNames
    THEN [st EXCEPT !.tool_seen = Append(@, <<part.tool_name, part.args>>)]
  ELSE IF ~Truthy(part.args) THEN st
  ELSE LET args_str == IF part.args.type = "str" THEN part.args.text
                       ELSE json_dumps(part.args.pairs)
           is_structured_output ==
             \E field \in OutputFields : Contains(LowerStr(args_str), field)
           current_text == args_str
           delta == SubSeq(current_text, Len(st.previous_text) + 1, Len(current_text))
       IN IF ~is_structured_output THEN st
          ELSE [st EXCEPT !.previous_text = current_text,
                          !.deltas = IF delta # <<>> THEN Append(@, delta) ELSE @]

\* line 264, `for part in item.parts`
RECURSIVE process_parts(_, _)
process_parts(st, parts) ==
  IF parts = <<>> THEN st
  ELSE process_parts(process_part(st, Head(parts)), Tail(parts))

\* the args of the output tool call as a response grows: a JSON string that
\* gets longer, or a dict that gets more entries
StrSnapshots == { StrArgs(SubSeq(txt_answer, 1, n)) : n \in 0..Len(txt_answer) }
DictSnapshots == { DictArgs(<<>>), DictArgs(<< pair_answer >>),
                   DictArgs(<< pair_answer, pair_confidence >>) }

StrChains ==
  { c \in SeqsUpTo(StrSnapshots, MaxStreamItems) :
      \A i \in 1..(Len(c) - 1) : Len(c[i].text) <= Len(c[i + 1].text) }

DictChains ==
  { c \in SeqsUpTo(DictSnapshots, MaxStreamItems) :
      \A i \in 1..(Len(c) - 1) : Len(c[i].pairs) <= Len(c[i + 1].pairs) }

\* the successive states of one response: a first part, which is text, a
\* search call or a complete call of the output tool, followed by a call of
\* the output tool whose args grow
Streams ==
  { [i \in 1..Len(c) |-> << first, ToolCallPart("final_result", c[i]) >>] :
      first \in {TextPart, SearchPart}, c \in StrChains \cup DictChains }
  \cup { [i \in 1..Len(c) |-> << ToolCallPart("final_result", StrArgs(txt_answer)),
                                  ToolCallPart("final_result", c[i]) >>] :
           c \in StrChains }

StreamInit ==
  /\ stream \in Streams
  /\ previous_text = <<>>
  /\ deltas = <<>>
  /\ tool_seen = <<>>
  /\ sresp = NoResponse
  /\ exception \in RunFailures
  \* the other subsystems are not running
  /\ call_args = None
  /\ returned = <<>>
  /\ handled = <<>>
  /\ caught = <<>>
  /\ guardrails = <<>>
  /\ agentOnCancel = "cancelled"
  /\ cost_tracker = EmptyTracker
  /\ task = [t \in {0} |-> "pending"]
  /\ started = [t \in {0} |-> FALSE]
  /\ must_cancel = [t \in {0} |-> FALSE]
  /\ sched = [t \in {0} |-> "none"]
  /\ ready = <<>>
  /\ ntodo = 0
  /\ outer1 = "pending"
  /\ nfin1 = 0
  /\ outer2 = "pending"
  /\ nfin2 = 0
  /\ sup_pc = "start"
  /\ outcome = "none"
  /\ agent_steps = 0
  /\ agent_first = FALSE
  /\ exceeded = FALSE
  /\ max_retries = 0
  /\ attempt = 0
  /\ jpc = "idle"
  /\ jhist = <<>>
  /\ jwaits = <<>>
  /\ jret = NoPair
  /\ ea_pc = "start"
  /\ ea_ret = NoPair
  /\ ground_truth = <<>>
  /\ ei = 1
  /\ epc = "loop"
  /\ results = <<>>
  /\ report = None
  /\ agent_result = NoResponse
  /\ judge_result = NoJudgeResult
  /\ ehist = <<>>
  /\ inflight = {}
  /\ _tool_calls = <<>>
  /\ qvariant = [q \in Queries |-> "plain"]
  /\ qpc = [q \in Queries |-> "idle"]
  /\ qresp = [q \in Queries |-> NoResponse]
  /\ qissued = [q \in Queries |-> <<>>]
  /\ tool_nums = [q \in Queries |-> <<>>]

\* lines 262-308: the next response of the stream
StreamResponse ==
  /\ sresp = NoResponse
  /\ stream # <<>>
  /\ LET st == process_parts([previous_text |-> previous_text, deltas |-> deltas,
                               tool_seen |-> tool_seen], Head(stream))
     IN /\ previous_text' = st.previous_text
        /\ deltas' = st.deltas
        /\ tool_seen' = st.tool_seen
  /\ stream' = Tail(stream)
  /\ UNCHANGED sresp
  /\ UNCHANGED nonStreamVars

\* lines 310-327: the stream is exhausted; the final output and the usage
StreamComplete ==
  /\ sresp = NoResponse
  /\ stream = <<>>
  /\ \E i \in 0..MaxAgentTokens, u \in 0..MaxAgentTokens :
       sresp' = AnswerResponse(_tool_calls, TokenUsage(i, u))
  /\ UNCHANGED <<stream, previous_text, deltas, tool_seen>>
  /\ UNCHANGED nonStreamVars

\* lines 329-371: the stream raises
StreamRaises ==
  /\ sresp = NoResponse
  /\ sresp' = ExceptBlockResponse(exception, _tool_calls)
  /\ UNCHANGED <<stream, previous_text, deltas, tool_seen>>
  /\ UNCHANGED nonStreamVars

StreamNext ==
  \/ StreamResponse
  \/ StreamComplete
  \/ StreamRaises

(* -------------------------- claims: streaming --------------------------- *)
RECURSIVE Concat(_)
Concat(texts) == IF texts = <<>> THEN <<>> ELSE Head(texts) \o Concat(Tail(texts))

\* C28 (as claimed): at every point of the stream the deltas passed to
\* structured_output_callback, concatenated in order, are the latest
\* structured-output text seen, and a stream that completes returns the final
\* output and the usage.
C28_DeltasConcatenateToLatestText ==
  /\ Concat(deltas) = previous_text
  /\ (sresp # NoResponse /\ sresp.error = None) =>
        (stream = <<>> /\ sresp.answer # None /\ sresp.usage # None)

(* =========================== SPECIFICATIONS ============================ *)
SpecGuard == GuardInit /\ [][GuardNext]_vars

\* the event loop runs a queued callback and starts a new iteration whenever
\* it can; timers and I/O are not required to fire
FairSpecGuard ==
  /\ SpecGuard
  /\ WF_vars(SupStart) /\ WF_vars(LoopPoll) /\ WF_vars(AgentTaskStep)
  /\ WF_vars(CostGuardrailStep) /\ WF_vars(QueryGuardrailStep)
  /\ WF_vars(GatherDoneCallback) /\ WF_vars(CleanupDoneCallback)
  /\ WF_vars(SupWakeup)

SpecQuery == QueryInit /\ [][QueryNext]_vars

SpecQueryInTurn == QueryInit /\ [][QueryInTurnNext]_vars

SpecResponses == QueryInit /\ [][ResponsesNext]_vars

SpecEval == EvalInit /\ [][EvalNext]_vars

SpecJudge == JudgeInit /\ [][JudgeNext]_vars

SpecError == ErrorInit /\ [][ErrorNext]_vars

SpecCalls == CallInit /\ [][CallNext]_vars

SpecStream == StreamInit /\ [][StreamNext]_vars

====
